---- MODULE Spec2Model ----
(***************************************************************************)
(* The chess rules engine of PremiumChessOnline (src/chess_gui.py): the    *)
(* pieces kept in WindowGui._gui_elements, the status WindowGui.check, the *)
(* turn counter MoveCount, the PinMap / ThreatMap derivation, the legal-   *)
(* move lists (Figure.validMovesList), Figure.move with its special moves, *)
(* the promotion wait, the clocks, and the entry points that reach them    *)
(* (drag and drop, WindowGui.make_move, the relay's control tokens).       *)
(*                                                                         *)
(* A square is <<x, y>> with x the file and y the rank, both 0..7.  A      *)
(* board (scanBoard) is a tuple of 64 entries indexed by Idx(sq), holding  *)
(* the position in the element list of the piece standing there, 0 for     *)
(* None.  The status values are the integers the code uses:                *)
(*   0 in progress, 1 white in check, 2 black in check, 4 blocked          *)
(*   (promotion pending or opponent stopped), 5 timeout, 6 checkmate,      *)
(*   7 stalemate, 8 threefold repetition, 9 fifty-move draw.               *)
(***************************************************************************)
EXTENDS Integers, Sequences, FiniteSets, TLC

(***************************************************************************)
(* Squares and boards                                                      *)
(***************************************************************************)
Coord == 0..7
Squares == Coord \X Coord
InBoard(x, y) == x \in Coord /\ y \in Coord
Idx(sq) == 8 * sq[2] + sq[1] + 1
BoardIdx == 1..64
SqOf(i) == <<(i - 1) % 8, (i - 1) \div 8>>

\* a Python list or dict built by a loop: its entries are computed when it is built
list(f) == f \o <<>>

NoDir == <<0, 0>>
emptyMap == list([i \in BoardIdx |-> 0])
emptyPinMap == list([i \in BoardIdx |-> NoDir])

Abs(n) == IF n < 0 THEN -n ELSE n

(***************************************************************************)
(* Piece classes                                                           *)
(***************************************************************************)
direction_vectors(kind, color) ==
    CASE kind = "Pawn"   -> IF color = 0 THEN << <<0, 1>> >> ELSE << <<0, -1>> >>
      [] kind = "Rook"   -> << <<1, 0>>, <<-1, 0>>, <<0, 1>>, <<0, -1>> >>
      [] kind = "Knight" -> << <<2, 1>>, <<2, -1>>, <<-2, 1>>, <<-2, -1>>,
                               <<1, 2>>, <<1, -2>>, <<-1, 2>>, <<-1, -2>> >>
      [] kind = "Bishop" -> << <<1, 1>>, <<1, -1>>, <<-1, 1>>, <<-1, -1>> >>
      [] OTHER           -> << <<1, 0>>, <<-1, 0>>, <<0, 1>>, <<0, -1>>,
                               <<1, 1>>, <<1, -1>>, <<-1, 1>>, <<-1, -1>> >>

range(kind) == IF kind \in {"Rook", "Bishop", "Queen"} THEN 8 ELSE 1

\* the vectors pinMoves and threatMoves walk: a pawn's two capture diagonals
attackVectors(kind, color) ==
    IF kind = "Pawn"
    THEN (IF color = 0 THEN << <<-1, 1>>, <<1, 1>> >> ELSE << <<-1, -1>>, <<1, -1>> >>)
    ELSE direction_vectors(kind, color)

Figure(id, kind, color, pos) ==
    [id |-> id, kind |-> kind, color |-> color, pos |-> pos,
     has_moved |-> FALSE, EnPassant |-> FALSE, validMovesList |-> {}]

BackRank == <<"Rook", "Knight", "Bishop", "Queen", "King", "Bishop", "Knight", "Rook">>

\* the element list after init_chess: per colour eight pawns, then the back rank
init_chess ==
    list([n \in 1..32 |->
        LET color == (n - 1) \div 16
            k     == (n - 1) % 16
        IN  IF k < 8
            THEN Figure(n, "Pawn", color, <<k, IF color = 1 THEN 6 ELSE 1>>)
            ELSE Figure(n, BackRank[k - 7], color, <<k - 8, IF color = 1 THEN 7 ELSE 0>>)])

(***************************************************************************)
(* scanBoard: later elements overwrite earlier ones on a shared square     *)
(***************************************************************************)
RECURSIVE scanFrom(_, _, _)
scanFrom(pcs, i, board) ==
    IF i > Len(pcs) THEN board
    ELSE scanFrom(pcs, i + 1, [board EXCEPT ![Idx(pcs[i].pos)] = i])

scanBoard(pcs) == scanFrom(pcs, 1, emptyMap)

(***************************************************************************)
(* pinMoves: the rays of one piece that reach the enemy king through at    *)
(* most one enemy piece.  A hit is [pos, d, n, direct]: the ray from pos   *)
(* in direction d meets the king after n steps, direct when unblocked.     *)
(***************************************************************************)
NoHit == [n |-> 0, direct |-> FALSE]

\* a walk that goes on past a second piece of the king's side
RECURSIVE pinWalkThrough(_, _, _, _, _, _)
pinWalkThrough(board, pcs, p, d, i, blocked) ==
    LET x == p.pos[1] + d[1] * i
        y == p.pos[2] + d[2] * i
    IN  IF i > range(p.kind) \/ ~InBoard(x, y) THEN NoHit
        ELSE LET b == board[Idx(<<x, y>>)]
             IN  IF b = 0 THEN pinWalkThrough(board, pcs, p, d, i + 1, blocked)
                 ELSE IF pcs[b].color # p.color /\ pcs[b].kind = "King"
                      THEN [n |-> i, direct |-> ~blocked]
                 ELSE IF pcs[b].color = p.color THEN NoHit
                 ELSE pinWalkThrough(board, pcs, p, d, i + 1, TRUE)

RECURSIVE pinWalk(_, _, _, _, _, _)
pinWalk(board, pcs, p, d, i, blocked) ==
    LET x == p.pos[1] + d[1] * i
        y == p.pos[2] + d[2] * i
    IN  IF i > range(p.kind) \/ ~InBoard(x, y) THEN NoHit
        ELSE LET b == board[Idx(<<x, y>>)]
             IN  IF b = 0 THEN pinWalk(board, pcs, p, d, i + 1, blocked)
                 ELSE IF pcs[b].color # p.color /\ pcs[b].kind = "King"
                      THEN [n |-> i, direct |-> ~blocked]
                 ELSE IF pcs[b].color = p.color THEN NoHit
                 ELSE IF blocked THEN NoHit
                 ELSE pinWalk(board, pcs, p, d, i + 1, TRUE)

pinHit(p, d, h) ==
    IF h.n > 0
    THEN <<[pos |-> p.pos, d |-> d, n |-> h.n, direct |-> h.direct, color |-> p.color]>>
    ELSE <<>>

RECURSIVE pinVectors(_, _, _, _, _)
pinVectors(board, pcs, p, vecs, k) ==
    IF k > Len(vecs) THEN <<>>
    ELSE pinHit(p, vecs[k], pinWalk(board, pcs, p, vecs[k], 1, FALSE))
         \o pinVectors(board, pcs, p, vecs, k + 1)

pinMoves(board, pcs, mc, p) ==
    IF p.color = mc % 2 THEN <<>>
    ELSE pinVectors(board, pcs, p, attackVectors(p.kind, p.color), 1)

(***************************************************************************)
(* threatMoves: the squares one piece attacks; a ray passes the enemy king *)
(***************************************************************************)
\* a ray that ends at the first piece it meets, the enemy king included
RECURSIVE threatWalkBlocked(_, _, _, _, _)
threatWalkBlocked(board, pcs, p, d, i) ==
    LET x == p.pos[1] + d[1] * i
        y == p.pos[2] + d[2] * i
    IN  IF i > range(p.kind) \/ ~InBoard(x, y) THEN {}
        ELSE IF board[Idx(<<x, y>>)] = 0
             THEN {Idx(<<x, y>>)} \cup threatWalkBlocked(board, pcs, p, d, i + 1)
             ELSE {Idx(<<x, y>>)}

RECURSIVE threatWalk(_, _, _, _, _)
threatWalk(board, pcs, p, d, i) ==
    LET x == p.pos[1] + d[1] * i
        y == p.pos[2] + d[2] * i
    IN  IF i > range(p.kind) \/ ~InBoard(x, y) THEN {}
        ELSE LET b == board[Idx(<<x, y>>)]
             IN  IF b = 0 \/ (pcs[b].kind = "King" /\ pcs[b].color # p.color)
                 THEN {Idx(<<x, y>>)} \cup threatWalk(board, pcs, p, d, i + 1)
                 ELSE {Idx(<<x, y>>)}

threatMoves(board, pcs, mc, p) ==
    IF p.color = mc % 2 THEN {}
    ELSE LET vecs == attackVectors(p.kind, p.color)
         IN  UNION {threatWalk(board, pcs, p, vecs[k], 1) : k \in 1..Len(vecs)}

(***************************************************************************)
(* Pawn.specialFilters: the pawn's list is rebuilt from the board alone    *)
(* (the moves computed by validMoves are not read)                         *)
(***************************************************************************)
PawnSpecialFilters(board, pcs, p, moves) ==
    LET step == IF p.color = 0 THEN 1 ELSE -1
        x == p.pos[1]
        y == p.pos[2]
        one_step_y == y + step
        two_step_y == y + 2 * step
        single == one_step_y \in Coord /\ board[Idx(<<x, one_step_y>>)] = 0
        forward ==
            IF single
            THEN {<<x, one_step_y>>} \cup
                 (IF ((p.color = 0 /\ y = 1) \/ (p.color = 1 /\ y = 6))
                      /\ board[Idx(<<x, two_step_y>>)] = 0
                  THEN {<<x, two_step_y>>} ELSE {})
            ELSE {}
        diagonal(dx) ==
            LET nx == x + dx
                ny == y + step
            IN  IF InBoard(nx, ny)
                THEN LET target == board[Idx(<<nx, ny>>)]
                         side_piece == board[Idx(<<nx, y>>)]
                     IN  (IF target # 0 /\ pcs[target].color # p.color
                               /\ pcs[target].kind # "King"
                          THEN {<<nx, ny>>} ELSE {})
                         \cup
                         (IF side_piece # 0 /\ pcs[side_piece].color # p.color
                               /\ pcs[side_piece].EnPassant
                          THEN {<<nx, ny>>} ELSE {})
                ELSE {}
    IN  forward \cup diagonal(-1) \cup diagonal(1)

(***************************************************************************)
(* King.castlingMoves and King.specialFilters                              *)
(***************************************************************************)
castlingMoves(board, pcs, ThreatMap, check, p) ==
    IF p.has_moved \/ check \in {1, 2} THEN {}
    ELSE LET y == p.pos[2]
             kx == p.pos[1]
             r7 == board[Idx(<<7, y>>)]
             r0 == board[Idx(<<0, y>>)]
             kingside ==
                 /\ r7 # 0 /\ pcs[r7].kind = "Rook" /\ ~pcs[r7].has_moved
                 /\ \A fx \in (kx + 1)..6 : board[Idx(<<fx, y>>)] = 0
                 /\ \A fx \in kx..6 : ThreatMap[Idx(<<fx, y>>)] = 0
             queenside ==
                 /\ r0 # 0 /\ pcs[r0].kind = "Rook" /\ ~pcs[r0].has_moved
                 /\ \A fx \in 1..(kx - 1) : board[Idx(<<fx, y>>)] = 0
                 /\ \A fx \in 0..kx : ThreatMap[Idx(<<fx, y>>)] = 0
         IN  (IF kingside THEN {<<kx + 2, y>>} ELSE {})
             \cup (IF queenside THEN {<<kx - 2, y>>} ELSE {})

KingSpecialFilters(board, pcs, ThreatMap, check, p, moves) ==
    {m \in moves : ThreatMap[Idx(m)] = 0}
        \cup castlingMoves(board, pcs, ThreatMap, check, p)

specialFilters(board, pcs, ThreatMap, check, p, moves) ==
    CASE p.kind = "Pawn" -> PawnSpecialFilters(board, pcs, p, moves)
      [] p.kind = "King" -> KingSpecialFilters(board, pcs, ThreatMap, check, p, moves)
      [] OTHER           -> moves

(***************************************************************************)
(* Figure.validMoves                                                       *)
(***************************************************************************)
RECURSIVE moveWalk(_, _, _, _, _)
moveWalk(board, pcs, p, d, i) ==
    LET x == p.pos[1] + d[1] * i
        y == p.pos[2] + d[2] * i
    IN  IF i > range(p.kind) \/ ~InBoard(x, y) THEN {}
        ELSE LET b == board[Idx(<<x, y>>)]
             IN  IF b = 0 THEN {<<x, y>>} \cup moveWalk(board, pcs, p, d, i + 1)
                 ELSE IF pcs[b].color = p.color \/ pcs[b].kind = "King" THEN {}
                 ELSE {<<x, y>>}

\* a direction is walked unless the piece's square carries another pin axis
pinAllows(PinMap, p, d) ==
    LET pin == PinMap[Idx(p.pos)]
    IN  pin = NoDir \/ p.kind = "King" \/ d = pin \/ <<-d[1], -d[2]>> = pin

\* the filter applied to a non-king piece while its side is in check
uncheckFilter(PinMap, moves) == {m \in moves : PinMap[Idx(m)] # NoDir}

validMoves(board, pcs, PinMap, ThreatMap, check, mc, p) ==
    IF mc % 2 # p.color \/ check \in {4, 5, 6, 7, 8, 9} THEN {}
    ELSE LET vecs == direction_vectors(p.kind, p.color)
             walked == UNION {IF pinAllows(PinMap, p, vecs[k])
                              THEN moveWalk(board, pcs, p, vecs[k], 1)
                              ELSE {} : k \in 1..Len(vecs)}
             moves == specialFilters(board, pcs, ThreatMap, check, p, walked)
         IN  IF check - 1 = p.color /\ p.kind # "King"
             THEN uncheckFilter(PinMap, moves)
             ELSE moves

(***************************************************************************)
(* The engine state handed from operation to operation is a record g with  *)
(* the fields of WindowGui that the rules read or write:                   *)
(*   pieces            the Figures of _gui_elements, in list order         *)
(*   check, MoveCount, PinMap, ThreatMap, MHList, fiftyMoveCounter,        *)
(*   promotionpiece, knocked_pieces, side                                  *)
(*   clocks            running / expired of WhiteClock (0), BlackClock (1) *)
(***************************************************************************)
None == "None"

IndexOf(pcs, id) == CHOOSE i \in 1..Len(pcs) : pcs[i].id = id
Alive(pcs, id) == \E i \in 1..Len(pcs) : pcs[i].id = id
Remove(pcs, i) == SubSeq(pcs, 1, i - 1) \o SubSeq(pcs, i + 1, Len(pcs))

\* GuiElement.kill: the element leaves the list (nothing happens if it already has)
kill(pcs, id) == IF Alive(pcs, id) THEN Remove(pcs, IndexOf(pcs, id)) ELSE pcs

(***************************************************************************)
(* ChessClock.start / stop / add_time, WindowGui.switch_clocks, EndGame    *)
(***************************************************************************)
ClockStart(c) == [c EXCEPT !.running = TRUE]
ClockStop(c) == [c EXCEPT !.running = FALSE]
\* the increment (INCREMENT seconds) lifts a clock that had just run out
ClockAddTime(c) == [c EXCEPT !.expired = FALSE]

switch_clocks(clocks) ==
    IF clocks[0].running
    THEN [clocks EXCEPT ![0] = ClockAddTime(ClockStop(@)), ![1] = ClockStart(@)]
    ELSE IF clocks[1].running
    THEN [clocks EXCEPT ![1] = ClockAddTime(ClockStop(@)), ![0] = ClockStart(@)]
    ELSE [clocks EXCEPT ![0] = ClockAddTime(@), ![1] = ClockStart(@)]

EndGame(g, result) ==
    [g EXCEPT !.check = result,
              !.clocks = (0 :> ClockStop(g.clocks[0])) @@ (1 :> ClockStop(g.clocks[1]))]

(***************************************************************************)
(* WindowGui.updateGameState                                               *)
(***************************************************************************)
RECURSIVE allPins(_, _, _, _)
allPins(board, pcs, mc, i) ==
    IF i > Len(pcs) THEN <<>>
    ELSE pinMoves(board, pcs, mc, pcs[i]) \o allPins(board, pcs, mc, i + 1)

RECURSIVE markRay(_, _, _)
markRay(pm, hit, k) ==
    IF k > hit.n THEN pm
    ELSE markRay([pm EXCEPT ![Idx(<<hit.pos[1] + hit.d[1] * k,
                                    hit.pos[2] + hit.d[2] * k>>)] = hit.d],
                 hit, k + 1)

RECURSIVE markHits(_, _, _)
markHits(pm, hits, j) ==
    IF j > Len(hits) THEN pm
    ELSE markHits(markRay(pm, hits[j], 0), hits, j + 1)

\* the status after the pinMoves pass: an unblocked ray to the king sets it
checkAfterPins(check, hits) ==
    LET direct == {j \in 1..Len(hits) : hits[j].direct}
    IN  IF direct = {} THEN check
        ELSE LET last == CHOOSE j \in direct : \A k \in direct : k <= j
             IN  IF hits[last].color = 1 THEN 1 ELSE 2

\* the ThreatMap: 1 on every square some piece of the side not to move attacks
threatMap(board, pcs, mc) ==
    LET marked(threats) == list([i \in BoardIdx |-> IF i \in threats THEN 1 ELSE 0])
    IN  marked(UNION {threatMoves(board, pcs, mc, pcs[i]) : i \in 1..Len(pcs)})

updateGameState(g) ==
    LET pcs == g.pieces
        \* the last loop: every list is recomputed; no list left with a move ends the game
        ended(newpcs, pm, tm, chk) ==
            LET noMovesleft == \A i \in 1..Len(newpcs) : newpcs[i].validMovesList = {}
                g1 == [g EXCEPT !.pieces = newpcs, !.PinMap = pm, !.ThreatMap = tm,
                                !.check = chk]
            IN  IF noMovesleft
                THEN EndGame(g1, IF chk \in {1, 2} THEN 6 ELSE 7)
                ELSE g1
        listed(board, pm, tm, chk) ==
            ended(list([i \in 1..Len(pcs) |->
                          [pcs[i] EXCEPT !.validMovesList =
                              validMoves(board, pcs, pm, tm, chk, g.MoveCount, pcs[i])]]),
                  pm, tm, chk)
        mapped(board, hits) ==
            listed(board, markHits(emptyPinMap, hits, 1),
                   threatMap(board, pcs, g.MoveCount), checkAfterPins(g.check, hits))
        scanned(board) == mapped(board, allPins(board, pcs, g.MoveCount, 1))
    IN  scanned(scanBoard(pcs))

\* a bookkeeping that leaves the pawn beside the mover on the board
EnPassantCheckKeep(pcs, id, new_pos) ==
    LET me == IndexOf(pcs, id)
        pos == pcs[me].pos
        cleared(board) ==
            list([i \in 1..Len(pcs) |->
                    IF board[Idx(pcs[i].pos)] = i /\ pcs[i].kind = "Pawn"
                    THEN [pcs[i] EXCEPT !.EnPassant = FALSE]
                    ELSE pcs[i]])
        checked(board) ==
            IF pos[1] # new_pos[1] /\ ~InBoard(new_pos[1], new_pos[2])
            THEN [pieces |-> cleared(board), raised |-> TRUE]
            ELSE IF pos[1] # new_pos[1] /\ board[Idx(new_pos)] = 0
            THEN LET captured == board[Idx(<<new_pos[1], pos[2]>>)]
                 IN  IF captured = 0
                     THEN [pieces |-> cleared(board), raised |-> TRUE]
                     ELSE [pieces |-> cleared(board), raised |-> FALSE]
            ELSE IF Abs(pos[2] - new_pos[2]) = 2
            THEN [pieces |-> [cleared(board) EXCEPT ![me].EnPassant = TRUE],
                  raised |-> FALSE]
            ELSE [pieces |-> cleared(board), raised |-> FALSE]
    IN  checked(scanBoard(pcs))

(***************************************************************************)
(* Pawn.EnPassantCheck: clears the flag of every pawn on the board, then   *)
(* removes the piece beside the mover on a diagonal step to an empty       *)
(* square, or sets the mover's flag on a double step.  raised: the code    *)
(* dereferences None when no piece stands beside the mover, and indexes    *)
(* the board with a destination that lies outside it.                      *)
(***************************************************************************)
EnPassantCheck(pcs, id, new_pos) ==
    LET me == IndexOf(pcs, id)
        pos == pcs[me].pos
        cleared(board) ==
            list([i \in 1..Len(pcs) |->
                    IF board[Idx(pcs[i].pos)] = i /\ pcs[i].kind = "Pawn"
                    THEN [pcs[i] EXCEPT !.EnPassant = FALSE]
                    ELSE pcs[i]])
        checked(board) ==
            IF pos[1] # new_pos[1] /\ ~InBoard(new_pos[1], new_pos[2])
            THEN [pieces |-> cleared(board), raised |-> TRUE]
            ELSE IF pos[1] # new_pos[1] /\ board[Idx(new_pos)] = 0
            THEN LET captured == board[Idx(<<new_pos[1], pos[2]>>)]
                 IN  IF captured = 0
                     THEN [pieces |-> cleared(board), raised |-> TRUE]
                     ELSE [pieces |-> Remove(cleared(board), captured), raised |-> FALSE]
            ELSE IF Abs(pos[2] - new_pos[2]) = 2
            THEN [pieces |-> [cleared(board) EXCEPT ![me].EnPassant = TRUE],
                  raised |-> FALSE]
            ELSE [pieces |-> cleared(board), raised |-> FALSE]
    IN  checked(scanBoard(pcs))

(***************************************************************************)
(* Figure.MoveHistory: the notation of a move                              *)
(***************************************************************************)
FileChar == <<"a", "b", "c", "d", "e", "f", "g", "h">>

PieceNameMap(kind) ==
    CASE kind = "Pawn" -> ""
      [] kind = "Knight" -> "N"
      [] kind = "Bishop" -> "B"
      [] kind = "Rook" -> "R"
      [] kind = "Queen" -> "Q"
      [] OTHER -> "K"

\* a notation that tells pieces apart by the file of origin only
MoveHistoryFileOnly(pcs, ctx, promo) ==
    LET same_type_pieces ==
            {i \in 1..Len(pcs) : /\ pcs[i].id \in ctx.visible
                                 /\ pcs[i].color = ctx.color
                                 /\ pcs[i].kind = ctx.kind
                                 /\ pcs[i].id # ctx.id}
        reach == {i \in same_type_pieces : ctx.new_pos \in pcs[i].validMovesList}
        same_column == \E i \in reach : ctx.prev_pos[1] = pcs[i].pos[1]
        same_row == \E i \in reach : ctx.prev_pos[1] # pcs[i].pos[1]
        disambiguate ==
            IF ctx.kind = "Pawn"
            THEN (IF ctx.target THEN FileChar[ctx.prev_pos[1] + 1] ELSE "")
            ELSE (IF same_row THEN FileChar[ctx.prev_pos[1] + 1] ELSE "")
                 \o (IF same_column /\ ~same_row THEN FileChar[ctx.prev_pos[1] + 1] ELSE "")
        body == PieceNameMap(ctx.kind) \o disambiguate
                \o (IF ctx.target THEN "x" ELSE "")
                \o FileChar[ctx.new_pos[1] + 1] \o ToString(ctx.new_pos[2] + 1)
    IN  IF promo # None THEN body \o "=" \o PieceNameMap(promo)
        ELSE IF ctx.castle = 1 THEN "O-O"
        ELSE IF ctx.castle = 2 THEN "O-O-O"
        ELSE body

\* ctx: the locals of Figure.move (id, kind, color of the mover, prev_pos,
\* new_pos, target: a piece stood on new_pos, castle, visible: the ids of the
\* pieces in the board scanned before the move)
MoveHistory(pcs, ctx, promo) ==
    LET same_type_pieces ==
            {i \in 1..Len(pcs) : /\ pcs[i].id \in ctx.visible
                                 /\ pcs[i].color = ctx.color
                                 /\ pcs[i].kind = ctx.kind
                                 /\ pcs[i].id # ctx.id}
        reach == {i \in same_type_pieces : ctx.new_pos \in pcs[i].validMovesList}
        same_column == \E i \in reach : ctx.prev_pos[1] = pcs[i].pos[1]
        same_row == \E i \in reach : ctx.prev_pos[1] # pcs[i].pos[1]
        disambiguate ==
            IF ctx.kind = "Pawn"
            THEN (IF ctx.target THEN FileChar[ctx.prev_pos[1] + 1] ELSE "")
            ELSE (IF same_row THEN FileChar[ctx.prev_pos[1] + 1] ELSE "")
                 \o (IF same_column THEN ToString(ctx.prev_pos[2] + 1) ELSE "")
        body == PieceNameMap(ctx.kind) \o disambiguate
                \o (IF ctx.target THEN "x" ELSE "")
                \o FileChar[ctx.new_pos[1] + 1] \o ToString(ctx.new_pos[2] + 1)
    IN  IF promo # None THEN body \o "=" \o PieceNameMap(promo)
        ELSE IF ctx.castle = 1 THEN "O-O"
        ELSE IF ctx.castle = 2 THEN "O-O-O"
        ELSE body

(***************************************************************************)
(* Figure.move, first part: en passant bookkeeping, capture, the castling  *)
(* rook, the mover's new square.  The result says whether the code raised  *)
(* (the state keeps what was written before the exception) and carries the *)
(* locals the rest of the move needs.                                      *)
(***************************************************************************)
NoCtx == [id |-> 0, kind |-> None, color |-> 0, prev_pos |-> <<0, 0>>,
          new_pos |-> <<0, 0>>, target |-> FALSE, castle |-> 0, visible |-> {}]

\* a placement that leaves the castling rook in its corner
movePlaceKingOnly(g, self0, new_pos, pcs1, board) ==
    LET id == self0.id
        visible == {pcs1[board[i]].id : i \in {j \in BoardIdx : board[j] # 0}}
        t == board[Idx(new_pos)]
        captured == t # 0 /\ pcs1[t].color # self0.color
        knocked == IF captured
                   THEN [g.knocked_pieces EXCEPT ![pcs1[t].kind][pcs1[t].color] = @ + 1]
                   ELSE g.knocked_pieces
        pcs2 == IF captured THEN Remove(pcs1, t) ELSE pcs1
        y0 == self0.pos[2]
        castling == self0.kind = "King" /\ Abs(self0.pos[1] - new_pos[1]) = 2
        corner == IF new_pos[1] = 6 THEN 7 ELSE 0
        rook == board[Idx(<<corner, y0>>)]
        withRook == castling /\ new_pos[1] \in {6, 2}
        castle == IF ~withRook THEN 0 ELSE IF new_pos[1] = 6 THEN 1 ELSE 2
        pcs3 == pcs2
        pcs4 == [pcs3 EXCEPT ![IndexOf(pcs3, id)].pos = new_pos]
        ctx == [id |-> id, kind |-> self0.kind, color |-> self0.color,
                prev_pos |-> self0.pos, new_pos |-> new_pos, target |-> t # 0,
                castle |-> castle, visible |-> visible]
    IN  IF withRook /\ rook = 0
        THEN [g |-> [g EXCEPT !.pieces = pcs2, !.knocked_pieces = knocked],
              raised |-> TRUE, ctx |-> NoCtx]
        ELSE [g |-> [g EXCEPT !.pieces = pcs4, !.knocked_pieces = knocked],
              raised |-> FALSE, ctx |-> ctx]

\* from "board = self.parent.scanBoard()" on: pcs1 is the element list after the
\* en passant bookkeeping, board its scan
movePlace(g, self0, new_pos, pcs1, board) ==
    LET id == self0.id
        visible == {pcs1[board[i]].id : i \in {j \in BoardIdx : board[j] # 0}}
        t == board[Idx(new_pos)]
        captured == t # 0 /\ pcs1[t].color # self0.color
        knocked == IF captured
                   THEN [g.knocked_pieces EXCEPT ![pcs1[t].kind][pcs1[t].color] = @ + 1]
                   ELSE g.knocked_pieces
        pcs2 == IF captured THEN Remove(pcs1, t) ELSE pcs1
        y0 == self0.pos[2]
        castling == self0.kind = "King" /\ Abs(self0.pos[1] - new_pos[1]) = 2
        corner == IF new_pos[1] = 6 THEN 7 ELSE 0
        rook == board[Idx(<<corner, y0>>)]
        withRook == castling /\ new_pos[1] \in {6, 2}
        castle == IF ~withRook THEN 0 ELSE IF new_pos[1] = 6 THEN 1 ELSE 2
        pcs3 == IF withRook /\ rook # 0
                THEN [pcs2 EXCEPT ![IndexOf(pcs2, pcs1[rook].id)].pos =
                                      <<IF corner = 7 THEN 5 ELSE 3, y0>>]
                ELSE pcs2
        pcs4 == [pcs3 EXCEPT ![IndexOf(pcs3, id)].pos = new_pos]
        ctx == [id |-> id, kind |-> self0.kind, color |-> self0.color,
                prev_pos |-> self0.pos, new_pos |-> new_pos, target |-> t # 0,
                castle |-> castle, visible |-> visible]
    IN  IF withRook /\ rook = 0
        THEN [g |-> [g EXCEPT !.pieces = pcs2, !.knocked_pieces = knocked],
              raised |-> TRUE, ctx |-> NoCtx]
        ELSE [g |-> [g EXCEPT !.pieces = pcs4, !.knocked_pieces = knocked],
              raised |-> FALSE, ctx |-> ctx]

moveBegin(g, id, new_pos) ==
    LET self0 == g.pieces[IndexOf(g.pieces, id)]
        placed(ep) ==
            IF ep.raised \/ ~InBoard(new_pos[1], new_pos[2])
            THEN [g |-> [g EXCEPT !.pieces = ep.pieces], raised |-> TRUE, ctx |-> NoCtx]
            ELSE movePlace(g, self0, new_pos, ep.pieces, scanBoard(ep.pieces))
    IN  placed(IF self0.kind = "Pawn" THEN EnPassantCheck(g.pieces, id, new_pos)
               ELSE [pieces |-> g.pieces, raised |-> FALSE])

(***************************************************************************)
(* Pawn.PromotionCheck                                                     *)
(***************************************************************************)
PromotionKinds == {"Queen", "Rook", "Bishop", "Knight"}

\* the pawn stands on its farthest rank
reachesLastRank(ctx) ==
    ctx.kind = "Pawn" /\ ctx.new_pos[2] = (IF ctx.color = 0 THEN 7 ELSE 0)

\* the branch that reads parent.promotionpiece (the other one opens the window)
promotionFromPeer(g, ctx) == g.side # ctx.color \/ g.promotionpiece # None

\* both branches empty the pawn's list before they wait
promotionEnter(g, ctx) ==
    IF Alive(g.pieces, ctx.id)
    THEN [g EXCEPT !.pieces[IndexOf(g.pieces, ctx.id)].validMovesList = {}]
    ELSE g

\* after the wait: the new piece is created on new_pos, the pawn is killed
promotionFinish(g, ctx, kindName) ==
    [g EXCEPT !.pieces = kill(Append(g.pieces,
                                     Figure(g.nextId, kindName, ctx.color, ctx.new_pos)),
                              ctx.id),
              !.nextId = @ + 1,
              !.selected = 0,
              !.promoted = TRUE,
              !.check = 0]

(***************************************************************************)
(* Figure.move, second part: from "self.parent.promotionpiece = None" to   *)
(* the clock switch                                                        *)
(***************************************************************************)
FiftyMoveLimit == 100

fiftyMoveDrawLate(counter) == counter > FiftyMoveLimit

\* "if self.parent.fiftyMoveCounter >= 100"
fiftyMoveDraw(counter) == counter >= FiftyMoveLimit

\* Figure.ThreefoldDrawCheck: the last eight records read A, B, C, D, A, B, C, D.
\* Figure.move does not call it (the call is commented out).
ThreefoldDrawCheck(g) ==
    IF Len(g.MHList) < 8 THEN g
    ELSE LET recent_moves == SubSeq(g.MHList, Len(g.MHList) - 7, Len(g.MHList))
         IN  IF /\ SubSeq(recent_moves, 1, 2) = SubSeq(recent_moves, 5, 6)
                /\ SubSeq(recent_moves, 3, 4) = SubSeq(recent_moves, 7, 8)
             THEN EndGame(g, 8)
             ELSE g

\* a second part of the move in which the repetition check is called
moveFinishRepetition(g, ctx, promo) ==
    LET g1 == [g EXCEPT
                 !.promotionpiece = IF ctx.kind = "Pawn" THEN None ELSE @,
                 !.pieces = IF ctx.kind \in {"Rook", "King"} /\ Alive(g.pieces, ctx.id)
                            THEN [@ EXCEPT ![IndexOf(g.pieces, ctx.id)].has_moved = TRUE]
                            ELSE @,
                 !.check = IF @ \in {1, 2} THEN 0 ELSE @]
        counted(Move, g2) ==
            LET suffixed == Move \o (IF g2.check = 6 THEN "#" ELSE "")
                                 \o (IF g2.check \in {1, 2} THEN "+" ELSE "")
                fifty == IF ctx.kind = "Pawn" \/ ctx.target THEN 0
                         ELSE g2.fiftyMoveCounter + 1
                g3 == [ThreefoldDrawCheck([g2 EXCEPT !.MHList = Append(@, suffixed)])
                          EXCEPT !.fiftyMoveCounter = fifty]
            IN  IF fiftyMoveDraw(fifty) THEN EndGame(g3, 9)
                ELSE IF g3.check \in {5, 6, 7, 8, 9}
                THEN [g3 EXCEPT !.MoveCount = @ + 1]
                ELSE [g3 EXCEPT !.MoveCount = @ + 1, !.clocks = switch_clocks(@)]
    IN  counted(MoveHistory(g1.pieces, ctx, promo), updateGameState(g1))

\* a second part of the move that resets the counter for pawn moves only
moveFinishPawnOnly(g, ctx, promo) ==
    LET g1 == [g EXCEPT
                 !.promotionpiece = IF ctx.kind = "Pawn" THEN None ELSE @,
                 !.pieces = IF ctx.kind \in {"Rook", "King"} /\ Alive(g.pieces, ctx.id)
                            THEN [@ EXCEPT ![IndexOf(g.pieces, ctx.id)].has_moved = TRUE]
                            ELSE @,
                 !.check = IF @ \in {1, 2} THEN 0 ELSE @]
        \* Move: the notation taken before the update, g2: the state after it
        counted(Move, g2) ==
            LET suffixed == Move \o (IF g2.check = 6 THEN "#" ELSE "")
                                 \o (IF g2.check \in {1, 2} THEN "+" ELSE "")
                fifty == IF ctx.kind = "Pawn" THEN 0
                         ELSE g2.fiftyMoveCounter + 1
                g3 == [g2 EXCEPT !.MHList = Append(@, suffixed),
                                 !.fiftyMoveCounter = fifty]
            IN  IF fiftyMoveDraw(fifty) THEN EndGame(g3, 9)
                ELSE IF g2.check \in {5, 6, 7, 8, 9}
                THEN [g3 EXCEPT !.MoveCount = @ + 1]
                ELSE [g3 EXCEPT !.MoveCount = @ + 1, !.clocks = switch_clocks(@)]
    IN  counted(MoveHistory(g1.pieces, ctx, promo), updateGameState(g1))

moveFinish(g, ctx, promo) ==
    LET g1 == [g EXCEPT
                 !.promotionpiece = IF ctx.kind = "Pawn" THEN None ELSE @,
                 !.pieces = IF ctx.kind \in {"Rook", "King"} /\ Alive(g.pieces, ctx.id)
                            THEN [@ EXCEPT ![IndexOf(g.pieces, ctx.id)].has_moved = TRUE]
                            ELSE @,
                 !.check = IF @ \in {1, 2} THEN 0 ELSE @]
        \* Move: the notation taken before the update, g2: the state after it
        counted(Move, g2) ==
            LET suffixed == Move \o (IF g2.check = 6 THEN "#" ELSE "")
                                 \o (IF g2.check \in {1, 2} THEN "+" ELSE "")
                fifty == IF ctx.kind = "Pawn" \/ ctx.target THEN 0
                         ELSE g2.fiftyMoveCounter + 1
                g3 == [g2 EXCEPT !.MHList = Append(@, suffixed),
                                 !.fiftyMoveCounter = fifty]
            IN  IF fiftyMoveDraw(fifty) THEN EndGame(g3, 9)
                ELSE IF g2.check \in {5, 6, 7, 8, 9}
                THEN [g3 EXCEPT !.MoveCount = @ + 1]
                ELSE [g3 EXCEPT !.MoveCount = @ + 1, !.clocks = switch_clocks(@)]
    IN  counted(MoveHistory(g1.pieces, ctx, promo), updateGameState(g1))

(***************************************************************************)
(* Figure.pick_up and Figure.undrag / WindowGui.make_move                  *)
(***************************************************************************)
\* picking up a piece of a colour other than the client's side empties its list
pick_up(g, id) ==
    LET i == IndexOf(g.pieces, id)
    IN  IF g.pieces[i].color # g.side
        THEN [g EXCEPT !.pieces[i].validMovesList = {}]
        ELSE g

\* undrag moves the piece when the status allows and the square is in its list
undragMoves(g, id, sq) ==
    /\ g.check \notin {4, 5, 6, 7, 8, 9}
    /\ sq \in g.pieces[IndexOf(g.pieces, id)].validMovesList

\* make_move: the piece scanBoard shows on the source square, if any, is moved
make_moveSource(g, tok) ==
    IF InBoard(tok[1], tok[2]) THEN scanBoard(g.pieces)[Idx(<<tok[1], tok[2]>>)] ELSE 0

\* mousePressEvent picks the first element of the list that contains the point
clickedFigure(pcs, sq) ==
    IF \E i \in 1..Len(pcs) : pcs[i].pos = sq
    THEN CHOOSE i \in 1..Len(pcs) : pcs[i].pos = sq /\ \A j \in 1..(i - 1) : pcs[j].pos # sq
    ELSE 0

\* mousePressEvent, the undrag of the selected Figure: it moves to the square
pressMoves(g, sq) == g.selected # 0 /\ undragMoves(g, g.selected, sq)

\* mousePressEvent, the loop over the elements: the Figure on the square is
\* picked up, and it becomes the selected one unless it was before the press
pressPick(g, sq, was_selected) ==
    LET e == clickedFigure(g.pieces, sq)
    IN  IF e = 0 THEN g
        ELSE [pick_up(g, g.pieces[e].id)
                 EXCEPT !.selected = IF g.pieces[e].id # was_selected
                                     THEN g.pieces[e].id ELSE @]

\* mousePressEvent after the undrag: the selection is dropped, and the handler
\* returns before the loop when a promotion has happened since the last such press
pressRest(g, sq, was_selected) ==
    IF was_selected = 0 THEN pressPick(g, sq, 0)
    ELSE IF g.promoted THEN [g EXCEPT !.selected = 0, !.promoted = FALSE]
    ELSE pressPick([g EXCEPT !.selected = 0], sq, was_selected)

(***************************************************************************)
(* State                                                                   *)
(***************************************************************************)
VARIABLES
    pieces,            \* Figures of WindowGui._gui_elements, in list order
    check,             \* WindowGui.check
    MoveCount,         \* WindowGui.MoveCount
    PinMap,            \* WindowGui.PinMap
    ThreatMap,         \* WindowGui.ThreatMap
    MHList,            \* WindowGui.MHList
    fiftyMoveCounter,  \* WindowGui.fiftyMoveCounter
    promotionpiece,    \* WindowGui.promotionpiece
    knocked_pieces,    \* KnockedPieces.pieces
    side,              \* WindowGui.side
    clocks,            \* WhiteClock / BlackClock
    nextId,            \* identity of the next Figure object created
    selected,          \* WindowGui.selected: identity of the Figure, 0 for None
    promoted,          \* WindowGui.promoted
    sent,              \* the move tokens undrag has passed to Client.send_message
    connected,         \* the socket of WebSocketClient is in ConnectedState
    waiting,           \* the Figure.move calls suspended in PromotionCheck, innermost last
    twin,              \* the engine record of the peer's instance of the program
    scenario,          \* the game being played (index into Scenarios)
    played,            \* number of moves of the scenario's line played so far
    events,            \* number of inputs handled after the line
    active_connections,\* ConnectionManager.active_connections (src/server.py)
    openside,          \* ConnectionManager.openside
    inbox,             \* per client the messages sent to it and not yet received
    raisedInit,        \* on_message_received has raised on a handshake
    casting            \* the call of ConnectionManager.broadcast that forwards a text

vars == <<pieces, check, MoveCount, PinMap, ThreatMap, MHList, fiftyMoveCounter,
          promotionpiece, knocked_pieces, side, clocks, nextId, selected, promoted,
          sent, connected, waiting, twin, scenario, played, events, active_connections, openside,
          inbox, raisedInit, casting>>

\* the relay's connections and the messages under way
relay == <<active_connections, openside, inbox, raisedInit, casting>>

\* the engine record of the current state
G == [pieces |-> pieces, check |-> check, MoveCount |-> MoveCount, PinMap |-> PinMap,
      ThreatMap |-> ThreatMap, MHList |-> MHList, fiftyMoveCounter |-> fiftyMoveCounter,
      promotionpiece |-> promotionpiece, knocked_pieces |-> knocked_pieces,
      side |-> side, clocks |-> clocks, nextId |-> nextId, selected |-> selected,
      promoted |-> promoted, sent |-> sent, connected |-> connected]

Becomes(g) ==
    /\ pieces' = g.pieces
    /\ check' = g.check
    /\ MoveCount' = g.MoveCount
    /\ PinMap' = g.PinMap
    /\ ThreatMap' = g.ThreatMap
    /\ MHList' = g.MHList
    /\ fiftyMoveCounter' = g.fiftyMoveCounter
    /\ promotionpiece' = g.promotionpiece
    /\ knocked_pieces' = g.knocked_pieces
    /\ side' = g.side
    /\ clocks' = g.clocks
    /\ nextId' = g.nextId
    /\ selected' = g.selected
    /\ promoted' = g.promoted
    /\ sent' = g.sent
    /\ connected' = g.connected

(***************************************************************************)
(* WindowGui.__init__: the pieces of init_chess, one updateGameState with  *)
(* MoveCount 0, then MoveCount 1                                           *)
(***************************************************************************)
Kinds == {"Pawn", "Knight", "Bishop", "Rook", "Queen", "King"}

\* KnockedPieces.pieces: per kind the number captured of each colour
noKnocked ==
    LET none == (0 :> 0) @@ (1 :> 0)
    IN  [Pawn |-> none, Knight |-> none, Bishop |-> none, Rook |-> none,
         Queen |-> none, King |-> none]

idleClock == [running |-> FALSE, expired |-> FALSE]

NewGame(s) ==
    LET g0 == [pieces |-> init_chess, check |-> 0, MoveCount |-> 0,
               PinMap |-> emptyPinMap, ThreatMap |-> emptyMap, MHList |-> <<>>,
               fiftyMoveCounter |-> 0, promotionpiece |-> None,
               knocked_pieces |-> noKnocked,
               side |-> s,
               clocks |-> (0 :> idleClock) @@ (1 :> idleClock),
               nextId |-> 33, selected |-> 0, promoted |-> FALSE, sent |-> <<>>,
               connected |-> TRUE]
    IN  [updateGameState(g0) EXCEPT !.MoveCount = 1]

(***************************************************************************)
(* Games.  Every run starts from the position of init_chess.  A scenario   *)
(* fixes the client's side and an opening line of move tokens (file, rank  *)
(* of the source, file, rank of the destination); the line is played       *)
(* through the same operations as any other move, and after it up to       *)
(* MaxEvents further inputs are taken freely.  stray: tokens a relay may   *)
(* forward at any time, whatever the position.                             *)
(***************************************************************************)
MaxEvents == 1
MaxSuspended == 1

RECURSIVE Rep(_, _)
Rep(seq, n) == IF n = 0 THEN <<>> ELSE seq \o Rep(seq, n - 1)

\* 1. e4 e5 2. Nf3 Bb4: the pawn on d2 stands between the bishop and the king
PinnedPawn ==
    <<<<4, 1, 4, 3>>, <<4, 6, 4, 4>>, <<6, 0, 5, 2>>, <<5, 7, 1, 3>>>>

\* 1. f3 e5 2. g4 Qh4#
FoolsMate ==
    <<<<5, 1, 5, 2>>, <<4, 6, 4, 4>>, <<6, 1, 6, 3>>, <<3, 7, 7, 3>>>>

\* 1. a3 d5 2. a4 d4 3. h3 Nf6 4. h4 Ng4 5. e4 Ne3 6. Ra2: the pawn on e4 has made
\* its double step two moves ago, beside the pawn on d4 and in front of the knight
KnightBehindPawn ==
    <<<<0, 1, 0, 2>>, <<3, 6, 3, 4>>, <<0, 2, 0, 3>>, <<3, 4, 3, 3>>,
     <<7, 1, 7, 2>>, <<6, 7, 5, 5>>, <<7, 2, 7, 3>>, <<5, 5, 6, 3>>,
     <<4, 1, 4, 3>>, <<6, 3, 4, 2>>, <<0, 0, 0, 1>>>>

\* 1. a4 h6 2. a5 h5 3. a6 h4 4. axb7 h3 5. bxa8
Promotion ==
    <<<<0, 1, 0, 3>>, <<7, 6, 7, 5>>, <<0, 3, 0, 4>>, <<7, 5, 7, 4>>,
     <<0, 4, 0, 5>>, <<7, 4, 7, 3>>, <<0, 5, 1, 6>>, <<7, 3, 7, 2>>,
     <<1, 6, 0, 7>>>>

\* 1. b3 g6 2. Ba3 Bg7 3. Nc3 a5 4. Nb5 h6 5. e3 h5 6. Qf3 Nh6: b1, c1 and d1 are empty,
\* the bishop on g7 looks at a1
LongCastle ==
    <<<<1, 1, 1, 2>>, <<6, 6, 6, 5>>, <<2, 0, 0, 2>>, <<5, 7, 6, 6>>,
     <<1, 0, 2, 2>>, <<0, 6, 0, 4>>, <<2, 2, 1, 4>>, <<7, 6, 7, 5>>,
     <<4, 1, 4, 2>>, <<7, 5, 7, 4>>, <<3, 0, 5, 2>>, <<6, 7, 7, 5>>>>

\* 1. e4 f6 2. Nc3 g5 3. a3, then the knights go out and home: 99 half-moves
\* without a pawn move or a capture
Shuffle == <<<<1, 7, 2, 5>>, <<2, 2, 1, 0>>, <<2, 5, 1, 7>>, <<1, 0, 2, 2>>>>
QuietGame ==
    <<<<4, 1, 4, 3>>, <<5, 6, 5, 5>>, <<1, 0, 2, 2>>, <<6, 6, 6, 4>>, <<0, 1, 0, 2>>>>
        \o Rep(Shuffle, 24) \o SubSeq(Shuffle, 1, 3)

\* the same game with the knight out to c3 once more as its 100th quiet
\* half-move: the game is drawn by the fifty-move rule
DrawnGame == QuietGame \o <<Shuffle[4]>>

\* 1. d4 d5 2. Nc3 Nc6 3. Bf4 Bf5 4. Qd2 Qd7 5. Nf3 Nf6 6. e3 e6 7. Be2 Be7
\* 8. O-O: white has castled kingside, black may castle on either side
BothCastles ==
    <<<<3, 1, 3, 3>>, <<3, 6, 3, 4>>, <<1, 0, 2, 2>>, <<1, 7, 2, 5>>,
     <<2, 0, 5, 3>>, <<2, 7, 5, 4>>, <<3, 0, 3, 1>>, <<3, 7, 3, 6>>,
     <<6, 0, 5, 2>>, <<6, 7, 5, 5>>, <<4, 1, 4, 2>>, <<4, 6, 4, 5>>,
     <<5, 0, 4, 1>>, <<5, 7, 4, 6>>, <<4, 0, 6, 0>>>>

\* 1. f3 e5 2. h3 Bb4 3. g4 Qh4: the queen mates on the diagonal h4-e1 while
\* the bishop on b4 pins the pawn on d2
PinnedMate ==
    <<<<5, 1, 5, 2>>, <<4, 6, 4, 4>>, <<7, 1, 7, 2>>, <<5, 7, 1, 3>>,
     <<6, 1, 6, 3>>, <<3, 7, 7, 3>>>>

\* 1. Nf3 h6 2. Nd4 h5 3. Nb5 h4: the white knights stand on b1 and b5 and
\* both can go to a3 and to c3
KnightsOnFile ==
    <<<<6, 0, 5, 2>>, <<7, 6, 7, 5>>, <<5, 2, 3, 3>>, <<7, 5, 7, 4>>,
     <<3, 3, 1, 4>>, <<7, 4, 7, 3>>>>

\* 1. d3 d5 2. Nd2 d4 3. f3 e5 4. a3 Ke7 5. a4 Kf6 6. b3 Kg5 7. Ra2 Kf4 8. e4
\* Ke3 9. Ra1: the black king stands on the square the e-pawn passed over,
\* beside the black pawn on d4
KingBehindPawn ==
    <<<<3, 1, 3, 2>>, <<3, 6, 3, 4>>, <<1, 0, 3, 1>>, <<3, 4, 3, 3>>, <<5, 1, 5, 2>>,
     <<4, 6, 4, 4>>, <<0, 1, 0, 2>>, <<4, 7, 4, 6>>, <<0, 2, 0, 3>>, <<4, 6, 5, 5>>,
     <<1, 1, 1, 2>>, <<5, 5, 6, 4>>, <<0, 0, 0, 1>>, <<6, 4, 5, 3>>, <<4, 1, 4, 3>>,
     <<5, 3, 4, 2>>, <<0, 1, 0, 0>>>>

\* the entry of a line that stands for the loss of the connection
Unplug == <<-1, -1, -1, -1>>

\* 1. e4 e5, then the connection of the client playing white is lost
Unplugged ==
    <<<<4, 1, 4, 3>>, <<4, 6, 4, 4>>, Unplug>>

\* a spectator clicks the pawn on e2, then 1. d4 d5 is played
Spectator ==
    <<<<4, 1, 4, 1>>, <<3, 1, 3, 3>>, <<3, 6, 3, 4>>>>

\* a player clicks the own pawn on e2
Selection ==
    <<<<4, 1, 4, 1>>>>

\* 1. e4 Nf6 2. d4 d6 3. a3, the local player clicks the knight on f6, then
\* Nb8-d7: both black knights could go to d7
TwoKnights ==
    <<<<4, 1, 4, 3>>, <<6, 7, 5, 5>>, <<3, 1, 3, 3>>, <<3, 6, 3, 5>>, <<0, 1, 0, 2>>,
     <<5, 5, 5, 5>>, <<1, 7, 3, 6>>>>

\* 1. c4 a6 2. c5 a5 3. e4 h6 4. e5 d5: the pawn on d5 has just made its double
\* step between the white pawns on c5 and e5
TwinCapture ==
    <<<<2, 1, 2, 3>>, <<0, 6, 0, 5>>, <<2, 3, 2, 4>>, <<0, 5, 0, 4>>,
     <<4, 1, 4, 3>>, <<7, 6, 7, 5>>, <<4, 3, 4, 4>>, <<3, 6, 3, 4>>>>

\* 1. h3 e6 2. h4 Bb4 3. a3 Nc6 4. h5 Nd4 5. h6 Nf3+: the knight gives check
\* while the bishop on b4 pins the pawn on d2
KnightCheck ==
    <<<<7, 1, 7, 2>>, <<4, 6, 4, 5>>, <<7, 2, 7, 3>>, <<5, 7, 1, 3>>, <<0, 1, 0, 2>>,
     <<1, 7, 2, 5>>, <<7, 3, 7, 4>>, <<2, 5, 3, 3>>, <<7, 4, 7, 5>>, <<3, 3, 5, 2>>>>

\* 1. e4 d6 2. Qh5 Kd7 3. Qb5+: the queen checks the king on d7 along the
\* diagonal b5-e8, e8 lies behind the king on her ray
KingWalk ==
    <<<<4, 1, 4, 3>>, <<3, 6, 3, 5>>, <<3, 0, 7, 4>>, <<4, 7, 3, 6>>, <<7, 4, 1, 4>>>>

Scenarios == <<
    [side |-> 0, line |-> PinnedPawn, stray |-> {<<4, 6, 4, 4>>, <<3, 1, 3, 4>>}],
    [side |-> 1, line |-> FoolsMate, stray |-> {<<4, 0, 4, 1>>}],
    [side |-> 1, line |-> KnightBehindPawn, stray |-> {<<3, 3, 4, 2>>}],
    [side |-> 0, line |-> Promotion, stray |-> {<<7, 2, 6, 1>>, <<3, 7, 0, 7>>}],
    [side |-> 1, line |-> Promotion, stray |-> {<<7, 2, 6, 1>>, <<3, 7, 0, 7>>}],
    [side |-> 0, line |-> LongCastle, stray |-> {<<4, 0, 2, 0>>}],
    [side |-> 0, line |-> QuietGame, stray |-> {<<3, 0, 7, 4>>}],
    [side |-> 0, line |-> TwoKnights, stray |-> {<<3, 6, 2, 4>>}],
    [side |-> 1, line |-> TwinCapture, stray |-> {<<3, 4, 3, 2>>}],
    [side |-> 0, line |-> KnightCheck, stray |-> {<<1, 0, 2, 2>>}],
    [side |-> 1, line |-> KingWalk, stray |-> {<<3, 6, 4, 7>>}],
    [side |-> 0, line |-> DrawnGame, stray |-> {<<1, 0, 2, 2>>}],
    [side |-> 1, line |-> BothCastles, stray |-> {<<4, 7, 2, 7>>}],
    [side |-> 0, line |-> PinnedMate, stray |-> {<<4, 0, 5, 1>>}],
    [side |-> 0, line |-> KnightsOnFile, stray |-> {<<1, 7, 2, 5>>}],
    [side |-> 1, line |-> KingBehindPawn, stray |-> {<<2, 0, 1, 1>>}],
    [side |-> -1, line |-> Spectator, stray |-> {<<4, 1, 4, 3>>}],
    [side |-> 0, line |-> Selection, stray |-> {<<4, 6, 4, 4>>}],
    [side |-> 0, line |-> Unplugged, stray |-> {<<6, 0, 5, 2>>}]
>>

Line == Scenarios[scenario].line
InLine == played < Len(Line)

\* the input tok is the next one of the line, or a free one after it
Allowed(tok) ==
    IF InLine THEN tok = Line[played + 1] ELSE events < MaxEvents

\* (the inputs of a game leave the connections as they are)
Counted ==
    /\ IF InLine THEN played' = played + 1 /\ events' = events
       ELSE played' = played /\ events' = events + 1
    /\ UNCHANGED relay

\* an input that is not part of any line: only after the line, and counted
Free == ~InLine /\ events < MaxEvents
FreeCounted == played' = played /\ events' = events + 1 /\ UNCHANGED relay

Uncounted == played' = played /\ events' = events /\ UNCHANGED relay

(***************************************************************************)
(* Figure.move as a whole: what the call leaves behind, either completed   *)
(* (or raised) or suspended in PromotionCheck                              *)
(***************************************************************************)
move(g, id, new_pos) ==
    LET begun(r) ==
            IF r.raised
            THEN [g |-> r.g, suspended |-> FALSE, ctx |-> NoCtx, local |-> FALSE]
            ELSE IF reachesLastRank(r.ctx)
            THEN LET g1 == promotionEnter(r.g, r.ctx)
                 IN  IF promotionFromPeer(g, r.ctx)
                     THEN IF g.promotionpiece # None
                          THEN [g |-> moveFinish(promotionFinish(g1, r.ctx,
                                                                 g.promotionpiece),
                                                 r.ctx, g.promotionpiece),
                                suspended |-> FALSE, ctx |-> NoCtx, local |-> FALSE]
                          ELSE [g |-> g1, suspended |-> TRUE, ctx |-> r.ctx,
                                local |-> FALSE]
                     ELSE [g |-> g1, suspended |-> TRUE, ctx |-> r.ctx, local |-> TRUE]
            ELSE [g |-> moveFinish(r.g, r.ctx, None),
                  suspended |-> FALSE, ctx |-> NoCtx, local |-> FALSE]
    IN  begun(moveBegin(g, id, new_pos))

\* WindowGui.make_move: the piece on the source square, if any, is moved to the
\* destination, whatever its colour and its list
make_move(g, tok) ==
    LET applied(src) ==
            IF src = 0
            THEN [g |-> g, suspended |-> FALSE, ctx |-> NoCtx, local |-> FALSE]
            ELSE move(g, g.pieces[src].id, <<tok[3], tok[4]>>)
    IN  applied(make_moveSource(g, tok))

\* a suspended call is pushed; it needs room among the suspended calls
\* int() of one character; -1 stands for the ValueError of a non-digit
int(c) ==
    CASE c = "0" -> 0 [] c = "1" -> 1 [] c = "2" -> 2 [] c = "3" -> 3 [] c = "4" -> 4
      [] c = "5" -> 5 [] c = "6" -> 6 [] c = "7" -> 7 [] c = "8" -> 8 [] c = "9" -> 9
      [] OTHER -> -1

\* WindowGui.make_move on the text of a message (a tuple of characters, the
\* prefix "Opponent: " removed): move[0] .. move[3] are read with int(); an
\* exception anywhere in the try block ends the call
make_moveText(g, msg) ==
    IF Len(msg) < 4 \/ \E k \in 1..4 : int(msg[k]) = -1
    THEN [g |-> g, suspended |-> FALSE, ctx |-> NoCtx, local |-> FALSE]
    ELSE make_move(g, <<int(msg[1]), int(msg[2]), int(msg[3]), int(msg[4])>>)

Moved(m) ==
    /\ m.suspended => Len(waiting) < MaxSuspended
    /\ Becomes(m.g)
    /\ waiting' = IF m.suspended
                  THEN Append(waiting, [ctx |-> m.ctx, local |-> m.local,
                                        chosen |-> None, spun |-> FALSE])
                  ELSE waiting

Top == waiting[Len(waiting)]

\* an instance is fed the token tok and, when the move then waits in
\* PromotionCheck, the decision (None: no decision yet, the move stays there)
fed(g, tok, decision) ==
    LET done(m) ==
            IF m.suspended /\ decision # None
            THEN moveFinish(promotionFinish(m.g, m.ctx, decision), m.ctx, decision)
            ELSE m.g
    IN  done(make_move(g, tok))

\* the token a suspended call was started with
TokenOf(ctx) == <<ctx.prev_pos[1], ctx.prev_pos[2], ctx.new_pos[1], ctx.new_pos[2]>>

\* the peer's instance receives the same token; a token that starts a promotion
\* is accounted for there when the decision is known
PeerFed(m, tok) ==
    twin' = IF m.suspended \/ ~connected THEN twin ELSE fed(twin, tok, None)
\* a promotion window is open: it covers the board, so no board click arrives
WindowOpen == \E k \in 1..Len(waiting) : waiting[k].local

\* a click reaches the board, and the selected Figure, if any, is on it
Pressable == ~WindowOpen /\ (selected = 0 \/ Alive(pieces, selected))

(***************************************************************************)
(* Inputs                                                                  *)
(***************************************************************************)
\* the local player drags piece i to sq: mousePressEvent -> pick_up,
\* mouseReleaseEvent -> undrag -> send_message, move
LocalMove(i, sq) ==
    /\ Pressable
    /\ ~pressMoves(G, pieces[i].pos)
    /\ selected = 0 \/ ~promoted
    /\ clickedFigure(pieces, pieces[i].pos) = i
    /\ \E tok \in {<<pieces[i].pos[1], pieces[i].pos[2], sq[1], sq[2]>>} :
          /\ Allowed(tok)
          /\ \E g1 \in {pressRest(G, pieces[i].pos, selected)} :
                /\ undragMoves(g1, pieces[i].id, sq)
                /\ \E m \in {move([g1 EXCEPT !.selected = 0, !.sent = Append(@, tok)],
                                   pieces[i].id, sq)} :
                      Moved(m) /\ PeerFed(m, tok)
    /\ Counted
    /\ UNCHANGED scenario

\* a piece is selected and the local player clicks the square sq of its list:
\* mousePressEvent -> undrag of the selected piece -> send_message, move, then
\* the rest of the handler.  (A click that starts a promotion wait is left to
\* the drag.)
Click(sq) ==
    /\ Pressable
    /\ pressMoves(G, sq)
    /\ \E i \in {IndexOf(pieces, selected)} :
       \E tok \in {<<pieces[i].pos[1], pieces[i].pos[2], sq[1], sq[2]>>} :
          /\ Allowed(tok)
          /\ \E m \in {move([G EXCEPT !.selected = 0, !.sent = Append(@, tok)],
                             selected, sq)} :
                /\ ~m.suspended
                /\ Moved([m EXCEPT !.g = pressRest(m.g, sq, selected)])
                /\ PeerFed(m, tok)
    /\ Counted
    /\ UNCHANGED scenario

\* the local player presses and releases the button on piece i, and the press
\* moves no selected piece: mousePressEvent -> pick_up, mouseReleaseEvent ->
\* undrag on the piece's own square, which is in no list
PickUp(i) ==
    /\ Pressable
    /\ ~pressMoves(G, pieces[i].pos)
    /\ clickedFigure(pieces, pieces[i].pos) = i
    /\ Allowed(<<pieces[i].pos[1], pieces[i].pos[2], pieces[i].pos[1], pieces[i].pos[2]>>)
    /\ Becomes(pressRest(G, pieces[i].pos, selected))
    /\ UNCHANGED <<waiting, twin, scenario>>
    /\ Counted

\* the peer, running the same program on the other side, drags piece i to sq;
\* its token arrives through on_message_received -> make_move
PeerMove(i, sq) ==
    /\ connected
    /\ waiting = <<>>
    /\ pieces[i].color # side
    /\ \E tok \in {<<pieces[i].pos[1], pieces[i].pos[2], sq[1], sq[2]>>} :
          /\ Allowed(tok)
          /\ undragMoves(G, pieces[i].id, sq)
          /\ clickedFigure(pieces, pieces[i].pos) = i
          /\ \E m \in {make_move(G, tok)} : Moved(m) /\ PeerFed(m, tok)
    /\ Counted
    /\ UNCHANGED scenario

\* any move token forwarded by the relay: make_move applies it as it is
RelayedToken(tok) ==
    /\ connected
    /\ Free
    /\ \E m \in {make_move(G, tok)} : Moved(m) /\ PeerFed(m, tok)
    /\ FreeCounted
    /\ UNCHANGED scenario

\* message texts a relay may forward that are no move of the game: too short,
\* not digits, squares outside the board, an empty source square
Texts ==
    {<<"4", "1">>, <<"4", "x", "4", "3">>, <<"8", "1", "4", "3">>, <<"4", "1", "4", "9">>,
     <<"4", "6", "4", "8">>, <<"1", "6", "1", "8">>, <<"6", "7", "8", "6">>,
     <<"4", "3", "4", "4">>, <<"3", "4", "3", "5">>}

\* on_message_received with any other text: make_move reads it
RelayedText(msg) ==
    /\ connected
    /\ Free
    /\ \E m \in {make_moveText(G, msg)} : Moved(m)
    /\ twin' = make_moveText(twin, msg).g
    /\ FreeCounted
    /\ UNCHANGED scenario

(***************************************************************************)
(* The promotion wait: "while decision is None: processEvents(); check = 4"*)
(***************************************************************************)
\* one pass of the innermost loop has ended: the status is written
WaitSpin ==
    /\ waiting # <<>>
    /\ check # 4 \/ ~Top.spun
    /\ check' = 4
    /\ waiting' = [waiting EXCEPT ![Len(waiting)].spun = TRUE]
    /\ UNCHANGED <<selected, promoted, sent, connected, pieces, MoveCount, PinMap, ThreatMap, MHList, fiftyMoveCounter,
                   promotionpiece, knocked_pieces, side, clocks, nextId, twin, scenario>>
    /\ Uncounted

\* PromotionWindow.select_piece: a button of the window is clicked
PromotionSelect(kindName) ==
    /\ waiting # <<>>
    /\ Top.local /\ Top.chosen = None
    /\ waiting' = [waiting EXCEPT ![Len(waiting)].chosen = kindName]
    /\ UNCHANGED <<selected, promoted, sent, connected, pieces, check, MoveCount, PinMap, ThreatMap, MHList, fiftyMoveCounter,
                   promotionpiece, knocked_pieces, side, clocks, nextId, twin, scenario>>
    /\ Uncounted

\* on_message_received, "promotion:<kind>" -> promote_pawn; here the message the
\* promoting peer sends after its own choice
PromotionMessage(kindName) ==
    /\ connected
    /\ waiting # <<>>
    /\ ~Top.local /\ promotionpiece = None
    /\ promotionpiece' = kindName
    /\ UNCHANGED <<selected, promoted, sent, connected, pieces, check, MoveCount, PinMap, ThreatMap, MHList, fiftyMoveCounter,
                   knocked_pieces, side, clocks, nextId, waiting, twin, scenario>>
    /\ Uncounted

\* the same message forwarded at any other time
StrayPromotionMessage(kindName) ==
    /\ connected
    /\ Free
    /\ promotionpiece' = kindName
    /\ UNCHANGED <<selected, promoted, sent, connected, pieces, check, MoveCount, PinMap, ThreatMap, MHList, fiftyMoveCounter,
                   knocked_pieces, side, clocks, nextId, waiting, twin, scenario>>
    /\ FreeCounted

\* the innermost loop sees its decision, leaves, and Figure.move runs to its end
PromotionResume ==
    /\ waiting # <<>>
    /\ LET decision == IF Top.local THEN Top.chosen ELSE promotionpiece
       IN  /\ decision # None
           /\ Becomes(moveFinish(promotionFinish(G, Top.ctx, decision), Top.ctx, decision))
           /\ twin' = IF connected THEN fed(twin, TokenOf(Top.ctx), decision) ELSE twin
    /\ waiting' = SubSeq(waiting, 1, Len(waiting) - 1)
    /\ UNCHANGED scenario
    /\ Uncounted

(***************************************************************************)
(* Control tokens of the relay and the clocks                              *)
(***************************************************************************)
\* WebSocketClient.on_disconnected: the socket has left ConnectedState, and
\* send_message sends nothing from now on (the program never connects again)
on_disconnected ==
    /\ connected
    /\ Allowed(Unplug)
    /\ Becomes([G EXCEPT !.connected = FALSE])
    /\ UNCHANGED <<waiting, twin, scenario>>
    /\ Counted

\* on_message_received, "stop"
Stop ==
    /\ connected
    /\ Free
    /\ check' = 4
    /\ UNCHANGED <<selected, promoted, sent, connected, pieces, MoveCount, PinMap, ThreatMap, MHList, fiftyMoveCounter,
                   promotionpiece, knocked_pieces, side, clocks, nextId, waiting, twin, scenario>>
    /\ FreeCounted

\* on_message_received, "start"
Start ==
    /\ connected
    /\ Free
    /\ check' = 0
    /\ UNCHANGED <<selected, promoted, sent, connected, pieces, MoveCount, PinMap, ThreatMap, MHList, fiftyMoveCounter,
                   promotionpiece, knocked_pieces, side, clocks, nextId, waiting, twin, scenario>>
    /\ FreeCounted

\* ChessClock.paint of a clock whose time is up: it runs out while running and
\* stays run out; the clock stops and, unless the status is 5, EndGame(5)
ClockPaint(c) ==
    /\ Free
    /\ clocks[c].running \/ clocks[c].expired
    /\ LET g1 == [G EXCEPT !.clocks[c] = [running |-> FALSE, expired |-> TRUE]]
       IN  Becomes(IF check # 5 THEN EndGame(g1, 5) ELSE g1)
    /\ UNCHANGED <<waiting, twin, scenario>>
    /\ FreeCounted

(***************************************************************************)
(* The relay (src/server.py, ConnectionManager) and the client's end of    *)
(* the connection (WebSocketClient.on_message_received).  A message is the *)
(* tuple of its colon-separated fields.  Client This runs the engine of    *)
(* this module; the other clients are connections only.                    *)
(***************************************************************************)
MaxClients == 3
MaxInbox == 2
Clients == 1..MaxClients
This == 1
NoClient == 0

\* str() of a side and int() of the field a client reads it from
strSide(n) == CASE n = 0 -> "0" [] n = 1 -> "1" [] OTHER -> "-1"
intSide(t) == CASE t = "0" -> 0 [] t = "1" -> 1 [] OTHER -> -1

Connected(conns) == {conns[k] : k \in 1..Len(conns)}

\* ConnectionManager.broadcast with sender None: every active connection
broadcast(box, conns, msg) ==
    [c \in Clients |-> IF c \in Connected(conns) THEN Append(box[c], msg) ELSE box[c]]

\* the replay loop of the handshake: an entry <<";", kind>> is the promotion
\* decision of the move before it
RECURSIVE replay(_, _, _)
replay(g, moves, i) ==
    IF i > Len(moves) THEN g
    ELSE IF moves[i][1] = ";" THEN replay(g, moves, i + 1)
    ELSE LET g1 == IF i + 1 <= Len(moves) /\ moves[i + 1][1] = ";"
                   THEN [g EXCEPT !.promotionpiece = moves[i + 1][2]]
                   ELSE g
         IN  replay(make_moveText(g1, moves[i]).g, moves, i + 1)

\* on_message_received for the handshake and the control tokens; raised: the
\* handler ended in an exception (what it wrote before stays)
on_message_received(g, msg) ==
    IF msg[1] = "init"
    THEN IF Len(msg) < 2 THEN [g |-> g, raised |-> TRUE]
         ELSE IF Len(msg) < 4
         THEN [g |-> [g EXCEPT !.side = intSide(msg[2])], raised |-> TRUE]
         ELSE [g |-> replay([g EXCEPT !.side = intSide(msg[2])], msg[4], 1),
               raised |-> FALSE]
    ELSE IF msg = <<"stop">> THEN [g |-> [g EXCEPT !.check = 4], raised |-> FALSE]
    ELSE IF msg = <<"start">> THEN [g |-> [g EXCEPT !.check = 0], raised |-> FALSE]
    ELSE IF msg[1] = "Opponent" THEN [g |-> make_moveText(g, msg[2]).g, raised |-> FALSE]
    ELSE [g |-> g, raised |-> FALSE]

Room == \A c \in Clients : Len(inbox[c]) < MaxInbox

(***************************************************************************)
(* websocket_endpoint: a text received from a client is forwarded by       *)
(* ConnectionManager.broadcast, whose loop over active_connections awaits  *)
(* each send_text; connects and disconnects of other clients run during    *)
(* these awaits.  casting holds the loop: its sender, the index of the     *)
(* list iterator, the copies sent to each client so far and the clients    *)
(* connected since the loop began.                                         *)
(***************************************************************************)
NoCast == [running |-> FALSE, sender |-> NoClient, i |-> 0,
           got |-> [k \in Clients |-> 0], stayed |-> {}, begun |-> 0]

\* the number of texts forwarded in one run
MaxCasts == 1

\* the texts a client sends: the move token 4143
RelayTexts == {<<"4", "1", "4", "3">>}

\* f"Opponent: {data}"
Forwarded(data) == <<"Opponent", data>>

\* the list iterator passes the sender without a send
castNext(conns, cast) ==
    IF cast.i < Len(conns) /\ conns[cast.i + 1] = cast.sender THEN cast.i + 1 ELSE cast.i

\* a connect or disconnect during the loop: a client that left has not stayed
CastingAfter ==
    casting' = IF casting.running
               THEN [casting EXCEPT !.stayed = @ \cap Connected(active_connections')]
               ELSE casting

\* receive_text returns a text of client c and broadcast(text, sender = c) begins
Receive(c) ==
    /\ ~casting.running
    /\ casting.begun < MaxCasts
    /\ c \in Connected(active_connections)
    /\ casting' = [NoCast EXCEPT !.running = TRUE, !.sender = c,
                                 !.stayed = Connected(active_connections),
                                 !.begun = casting.begun + 1]
    /\ UNCHANGED <<selected, promoted, sent, connected, pieces, check, MoveCount, PinMap,
                   ThreatMap, MHList, fiftyMoveCounter, promotionpiece, knocked_pieces,
                   side, clocks, nextId, waiting, twin, scenario, played, events,
                   active_connections, openside, inbox, raisedInit>>

\* the loop goes on after an await: the next connection of the list that is
\* not the sender is sent the text, or the list is exhausted and the call ends
BroadcastStep(data) ==
    /\ casting.running
    /\ Room
    /\ \E j \in {castNext(active_connections, casting)} :
          IF j < Len(active_connections)
          THEN \E to \in {active_connections[j + 1]} :
                  /\ inbox' = [inbox EXCEPT ![to] = Append(@, Forwarded(data))]
                  /\ casting' = [casting EXCEPT !.i = j + 1, !.got[to] = @ + 1]
          ELSE /\ casting' = [NoCast EXCEPT !.begun = casting.begun]
               /\ UNCHANGED inbox
    /\ UNCHANGED <<selected, promoted, sent, connected, pieces, check, MoveCount, PinMap,
                   ThreatMap, MHList, fiftyMoveCounter, promotionpiece, knocked_pieces,
                   side, clocks, nextId, waiting, twin, scenario, played, events,
                   active_connections, openside, raisedInit>>

\* a connect that gives slot 1 to the newcomer whenever slot 0 is taken
ConnectNoSpectator(c) ==
    /\ c \notin Connected(active_connections)
    /\ Room
    /\ \E sd \in {IF openside[0] = NoClient THEN 0 ELSE 1} :
          /\ active_connections' = Append(active_connections, c)
          /\ openside' = [openside EXCEPT ![sd] = c]
          /\ inbox' = [(IF sd = 1
                        THEN broadcast(inbox, Append(active_connections, c), <<"start">>)
                        ELSE inbox)
                       EXCEPT ![c] = Append(@, <<"init", strSide(sd)>>)]
    /\ UNCHANGED <<selected, promoted, sent, connected, pieces, check, MoveCount, PinMap,
                   ThreatMap, MHList, fiftyMoveCounter, promotionpiece, knocked_pieces,
                   side, clocks, nextId, waiting, twin, scenario, played, events,
                   raisedInit>>
    /\ CastingAfter

\* ConnectionManager.connect
Connect(c) ==
    /\ c \notin Connected(active_connections)
    /\ Room
    /\ \E sd \in {IF openside[0] = NoClient THEN 0
                   ELSE IF openside[1] = NoClient THEN 1 ELSE -1} :
          /\ active_connections' = Append(active_connections, c)
          /\ openside' = IF sd = -1 THEN openside ELSE [openside EXCEPT ![sd] = c]
          /\ inbox' = [(IF sd = 1
                        THEN broadcast(inbox, Append(active_connections, c), <<"start">>)
                        ELSE inbox)
                       EXCEPT ![c] = Append(@, <<"init", strSide(sd)>>)]
    /\ UNCHANGED <<selected, promoted, sent, connected, pieces, check, MoveCount, PinMap, ThreatMap, MHList, fiftyMoveCounter,
                   promotionpiece, knocked_pieces, side, clocks, nextId, waiting, twin,
                   scenario, played, events, raisedInit>>
    /\ CastingAfter

\* websocket_endpoint on WebSocketDisconnect: handle_disconnect
Disconnect(c) ==
    /\ c \in Connected(active_connections)
    /\ casting.running => c # casting.sender
    /\ Room
    /\ \E left \in {IF openside[0] = c THEN [openside EXCEPT ![0] = NoClient]
                     ELSE IF openside[1] = c THEN [openside EXCEPT ![1] = NoClient]
                     ELSE openside} :
       \E conns \in {SelectSeq(active_connections, LAMBDA x : x # c)} :
          /\ openside' = left
          /\ active_connections' = conns
          /\ inbox' = [(IF left[0] = NoClient \/ left[1] = NoClient
                        THEN broadcast(inbox, conns, <<"stop">>)
                        ELSE inbox)
                       EXCEPT ![c] = <<>>]
    /\ UNCHANGED <<selected, promoted, sent, connected, pieces, check, MoveCount, PinMap, ThreatMap, MHList, fiftyMoveCounter,
                   promotionpiece, knocked_pieces, side, clocks, nextId, waiting, twin,
                   scenario, played, events, raisedInit>>
    /\ CastingAfter

\* the next message reaches client c; client This handles it
Deliver(c) ==
    /\ inbox[c] # <<>>
    /\ inbox' = [inbox EXCEPT ![c] = Tail(@)]
    /\ IF c = This
       THEN \E r \in {on_message_received(G, Head(inbox[c]))} :
               /\ Becomes(r.g)
               /\ raisedInit' = (raisedInit \/ r.raised)
       ELSE UNCHANGED <<selected, promoted, sent, connected, pieces, check, MoveCount, PinMap, ThreatMap, MHList,
                        fiftyMoveCounter, promotionpiece, knocked_pieces, side, clocks,
                        nextId, raisedInit>>
    /\ UNCHANGED <<waiting, twin, scenario, played, events, active_connections, openside,
                   casting>>

(***************************************************************************)
(* Specifications                                                          *)
(***************************************************************************)
Init ==
    /\ scenario \in 1..Len(Scenarios)
    /\ \E g \in {NewGame(Scenarios[scenario].side)} :
          /\ pieces = g.pieces /\ check = g.check /\ MoveCount = g.MoveCount
          /\ PinMap = g.PinMap /\ ThreatMap = g.ThreatMap /\ MHList = g.MHList
          /\ fiftyMoveCounter = g.fiftyMoveCounter /\ promotionpiece = g.promotionpiece
          /\ knocked_pieces = g.knocked_pieces /\ side = g.side /\ clocks = g.clocks
          /\ nextId = g.nextId /\ selected = g.selected /\ promoted = g.promoted
          /\ sent = g.sent /\ connected = g.connected
    /\ waiting = <<>>
    /\ twin = NewGame(IF Scenarios[scenario].side = -1 THEN 0
                       ELSE 1 - Scenarios[scenario].side)
    /\ played = 0
    /\ events = 0
    /\ active_connections = <<>>
    /\ openside = (0 :> NoClient) @@ (1 :> NoClient)
    /\ inbox = [c \in Clients |-> <<>>]
    /\ raisedInit = FALSE
    /\ casting = NoCast

\* both players play from their legal-move lists; promotions are decided
NextLegal ==
    \/ \E i \in 1..Len(pieces) : \E sq \in pieces[i].validMovesList : LocalMove(i, sq)
    \/ \E i \in 1..Len(pieces) : \E sq \in pieces[i].validMovesList : PeerMove(i, sq)
    \/ \E i \in 1..Len(pieces) : PickUp(i)
    \/ \E sq \in Squares : Click(sq)
    \/ on_disconnected
    \/ WaitSpin
    \/ \E k \in PromotionKinds : PromotionSelect(k)
    \/ \E k \in PromotionKinds : PromotionMessage(k)
    \/ PromotionResume

\* the same, with everything else the relay and the clocks can deliver
Next ==
    \/ NextLegal
    \/ \E tok \in Scenarios[scenario].stray : RelayedToken(tok)
    \/ \E msg \in Texts : RelayedText(msg)
    \/ \E k \in PromotionKinds : StrayPromotionMessage(k)
    \/ Stop
    \/ Start
    \/ \E c \in {0, 1} : ClockPaint(c)

\* the relay with its clients, before any move of a game
NextRelay ==
    \/ \E c \in Clients : Connect(c)
    \/ \E c \in Clients : Disconnect(c)
    \/ \E c \in Clients : Deliver(c)
    \/ \E c \in Clients : Receive(c)
    \/ \E data \in RelayTexts : BroadcastStep(data)

\* the relay is followed from one opening position
InitRelay == Init /\ scenario = 1

SpecLegal == Init /\ [][NextLegal]_vars
SpecRelay == InitRelay /\ [][NextRelay]_vars
Spec == Init /\ [][Next]_vars

(***************************************************************************)
(* Chess geometry, used to state the properties: which squares a piece     *)
(* attacks by the rules of the game, read from the element list alone      *)
(***************************************************************************)
Sign(n) == IF n > 0 THEN 1 ELSE IF n < 0 THEN -1 ELSE 0
Max(a, b) == IF a > b THEN a ELSE b

Occupied(pcs, sq) == \E i \in 1..Len(pcs) : pcs[i].pos = sq

\* no piece stands strictly between a and b (on a common rank, file or diagonal)
ClearBetween(pcs, a, b) ==
    \A k \in 1..(Max(Abs(b[1] - a[1]), Abs(b[2] - a[2])) - 1) :
        ~Occupied(pcs, <<a[1] + k * Sign(b[1] - a[1]), a[2] + k * Sign(b[2] - a[2])>>)

Attacks(pcs, p, sq) ==
    LET dx == sq[1] - p.pos[1]
        dy == sq[2] - p.pos[2]
        straight == (dx = 0 \/ dy = 0) /\ <<dx, dy>> # <<0, 0>>
        diagonal == Abs(dx) = Abs(dy) /\ dx # 0
    IN  CASE p.kind = "Pawn"   -> Abs(dx) = 1 /\ dy = (IF p.color = 0 THEN 1 ELSE -1)
          [] p.kind = "Knight" -> {Abs(dx), Abs(dy)} = {1, 2}
          [] p.kind = "King"   -> Abs(dx) <= 1 /\ Abs(dy) <= 1 /\ <<dx, dy>> # <<0, 0>>
          [] p.kind = "Rook"   -> straight /\ ClearBetween(pcs, p.pos, sq)
          [] p.kind = "Bishop" -> diagonal /\ ClearBetween(pcs, p.pos, sq)
          [] OTHER             -> (straight \/ diagonal) /\ ClearBetween(pcs, p.pos, sq)

Attacked(pcs, sq, by) ==
    \E i \in 1..Len(pcs) : pcs[i].color = by /\ Attacks(pcs, pcs[i], sq)

InCheck(pcs, color) ==
    \E k \in 1..Len(pcs) :
        /\ pcs[k].kind = "King" /\ pcs[k].color = color
        /\ Attacked(pcs, pcs[k].pos, 1 - color)

\* the side to move when both players have only played in turn
Mover == Len(MHList) % 2
\* no move is in progress and the game goes on
Settled == waiting = <<>> /\ check \in {0, 1, 2}

NoMoveFor(pcs, color) ==
    \A i \in 1..Len(pcs) : pcs[i].color = color => pcs[i].validMovesList = {}

\* what a request may not change when it is rejected
Positions(pcs) ==
    {[id |-> pcs[i].id, kind |-> pcs[i].kind, color |-> pcs[i].color, pos |-> pcs[i].pos,
      has_moved |-> pcs[i].has_moved, EnPassant |-> pcs[i].EnPassant] : i \in 1..Len(pcs)}
Observed(g) ==
    [pieces |-> Positions(g.pieces), knocked_pieces |-> g.knocked_pieces,
     check |-> g.check, MoveCount |-> g.MoveCount,
     fiftyMoveCounter |-> g.fiftyMoveCounter, MHList |-> g.MHList]

\* a step that completes a move appends its notation
Completed == Len(MHList') = Len(MHList) + 1

(***************************************************************************)
(* Properties                                                              *)
(***************************************************************************)
\* C1: check safety.  In every position where the game goes on, playing any
\* square of any piece's legal-move list leaves the mover's own king on a
\* square that no enemy piece attacks.
C1_CheckSafety ==
    Settled =>
        \A i \in 1..Len(pieces) : \A sq \in pieces[i].validMovesList :
            ~InCheck(moveBegin(G, pieces[i].id, sq).g.pieces, pieces[i].color)

\* C2: a move request through make_move whose source piece belongs to the side
\* not to move, or whose destination is not in that piece's legal-move list, is
\* rejected: positions, flags, captured pieces, status, turn counter, halfmove
\* counter and move history are the same after it as before.
C2_IllegalRequestRejected ==
    \A tok \in Scenarios[scenario].stray :
        LET src == make_moveSource(G, tok)
        IN  (/\ src # 0
             /\ \/ pieces[src].color # (MoveCount + 1) % 2
                \/ <<tok[3], tok[4]>> \notin pieces[src].validMovesList)
            => Observed(make_move(G, tok).g) = Observed(G)

\* C3: terminal states are irreversible.  Once the status is 5, 6, 7, 8 or 9,
\* every later step leaves it at that value.
C3_TerminalIrreversible ==
    [][(check \in {5, 6, 7, 8, 9}) => check' = check]_vars

\* C4: after every completed move, a side to move that has no legal move for
\* any piece is checkmated (6) when its king is attacked and stalemated (7)
\* otherwise; and in the checkmate state the mated side's king is attacked and
\* each of its pieces has an empty list.
C4_MateOrStalemate ==
    (waiting = <<>> /\ Len(MHList) > 0) =>
        /\ NoMoveFor(pieces, Mover) => check = (IF InCheck(pieces, Mover) THEN 6 ELSE 7)
        /\ check = 6 => NoMoveFor(pieces, Mover) /\ InCheck(pieces, Mover)

\* C5: board invariant.  When both sides only play moves of their legal-move
\* lists, no two live pieces stand on the same square.
C5_OnePiecePerSquare ==
    \A i, j \in 1..Len(pieces) : i # j => pieces[i].pos # pieces[j].pos

\* C6: while a promotion decision is pending with status 4, a move request is
\* rejected: it changes no position, turn counter, status or history entry.
C6_NoMoveDuringPromotionWait ==
    (waiting # <<>> /\ check = 4) =>
        \A tok \in Scenarios[scenario].stray :
            Observed(make_move(G, tok).g) = Observed(G)

\* the status the rules give the position pcs with color to move
StatusOf(pcs, color) ==
    IF NoMoveFor(pcs, color) THEN (IF InCheck(pcs, color) THEN 6 ELSE 7)
    ELSE IF InCheck(pcs, color) THEN (IF color = 0 THEN 1 ELSE 2)
    ELSE 0

\* the step ends the wait w: the pawn is gone, one piece of the supplied kind and
\* the pawn's colour stands on the destination, the status is evaluated anew
PromotedBy(w, kindName) ==
    /\ kindName \in PromotionKinds
    /\ ~Alive(pieces', w.ctx.id)
    /\ \E j \in 1..Len(pieces') :
          /\ pieces'[j].pos = w.ctx.new_pos
          /\ pieces'[j].kind = kindName /\ pieces'[j].color = w.ctx.color
          /\ ~Alive(pieces, pieces'[j].id)
          /\ \A k \in 1..Len(pieces') : pieces'[k].pos = w.ctx.new_pos => k = j
    /\ Completed
    /\ check' = StatusOf(pieces', 1 - w.ctx.color)

\* C7: a pawn that reaches its farthest rank does not complete its move until a
\* kind is supplied: while the wait lasts no move is recorded and, once the wait
\* loop has run, the status is 4; the step that ends the wait replaces the pawn
\* by exactly one piece of the supplied kind and colour on the destination and
\* evaluates the status for the new position.
C7_Promotion ==
    [][/\ (waiting' # <<>> /\ waiting'[Len(waiting')].spun) => check' = 4
       /\ (waiting # <<>> /\ waiting' # <<>>) => ~Completed /\ MoveCount' = MoveCount
       /\ (waiting # <<>> /\ waiting' = <<>>) =>
              PromotedBy(Top, IF Top.local THEN Top.chosen ELSE promotionpiece)]_vars

\* castling by the rules: king and rook unmoved, nothing between them, and the
\* king's start, transit and destination squares not attacked
CastlingAllowed(pcs, k, dir) ==
    LET y == k.pos[2]
        kx == k.pos[1]
        corner == IF dir = 1 THEN 7 ELSE 0
    IN  /\ ~k.has_moved
        /\ \E r \in 1..Len(pcs) :
              /\ pcs[r].kind = "Rook" /\ pcs[r].color = k.color
              /\ pcs[r].pos = <<corner, y>> /\ ~pcs[r].has_moved
        /\ ClearBetween(pcs, k.pos, <<corner, y>>)
        /\ \A n \in 0..2 : ~Attacked(pcs, <<kx + n * dir, y>>, 1 - k.color)

\* C8: castling boundary.  For the side to move, the square two files from the
\* king toward a rook is in the king's list if and only if castling to that
\* side is allowed by the rules.
C8_CastlingBoundary ==
    Settled =>
        \A i \in 1..Len(pieces) : \A dir \in {-1, 1} :
            (pieces[i].kind = "King" /\ pieces[i].color = Mover) =>
                (<<pieces[i].pos[1] + 2 * dir, pieces[i].pos[2]>> \in pieces[i].validMovesList
                    <=> CastlingAllowed(pieces, pieces[i], dir))

\* C9: en passant eligibility lasts one ply.  A pawn whose flag is set has it
\* cleared by the next completed move, whichever piece makes it.
C9_EnPassantOnePly ==
    [][Completed =>
          \A i \in 1..Len(pieces) : \A j \in 1..Len(pieces') :
              (pieces[i].EnPassant /\ pieces'[j].id = pieces[i].id)
                  => ~pieces'[j].EnPassant]_vars

\* a completed half-move that is neither a capture (no piece has left the
\* board) nor a pawn move (no pawn has changed its square)
QuietHalfMove ==
    /\ Completed
    /\ \A i \in 1..Len(pieces) :
          /\ Alive(pieces', pieces[i].id)
          /\ pieces[i].kind = "Pawn" =>
                pieces'[IndexOf(pieces', pieces[i].id)].pos = pieces[i].pos

\* C10: fifty-move rule.  The halfmove counter is the number of consecutive
\* completed half-moves without pawn move or capture; the status becomes 9 with
\* the move that makes it 100, and in no other step.
C10_FiftyMoveRule ==
    [][/\ Completed => fiftyMoveCounter' = (IF QuietHalfMove THEN fiftyMoveCounter + 1 ELSE 0)
       /\ Completed => (check' = 9 <=> fiftyMoveCounter' >= 100)
       /\ ~Completed => (check' = 9 => check = 9)]_vars

C10_Witness == check = 9 /\ fiftyMoveCounter = 100 /\ waiting = <<>>

\* what two instances are compared by: the pieces on their squares
Placement(pcs) ==
    {[kind |-> pcs[i].kind, color |-> pcs[i].color, pos |-> pcs[i].pos] : i \in 1..Len(pcs)}

\* C11: determinism.  The peer's instance, fed the same tokens and promotion
\* decisions in the same order, has between moves the same piece placement, the
\* same status and the same notation list as this instance, whatever their
\* sides and whatever pieces were picked up here.
C11_Determinism ==
    waiting = <<>> =>
        /\ Placement(twin.pieces) = Placement(pieces)
        /\ twin.check = check
        /\ twin.MHList = MHList

\* the state after the piece id has been moved to sq and, when that is a
\* promotion, the kind K has been supplied
PlayedOut(g, id, sq, K) ==
    LET done(m) ==
            IF m.suspended
            THEN moveFinish(promotionFinish(m.g, m.ctx, K), m.ctx, K)
            ELSE m.g
    IN  done(move(g, id, sq))

\* the legal moves of the side to move, each with the notation it is recorded by
\* and the placement it leads to
NotedMoves ==
    LET noted(i, sq, K, g) ==
            [piece |-> pieces[i].id, to |-> sq, kind |-> K,
             note |-> IF Len(g.MHList) > Len(MHList) THEN g.MHList[Len(g.MHList)]
                      ELSE None,
             placement |-> Placement(g.pieces)]
        kinds(i, sq) ==
            IF pieces[i].kind = "Pawn" /\ sq[2] = (IF pieces[i].color = 0 THEN 7 ELSE 0)
            THEN PromotionKinds ELSE {None}
    IN  UNION {UNION {{noted(i, sq, K, PlayedOut(G, pieces[i].id, sq, K)) : K \in kinds(i, sq)}
                      : sq \in pieces[i].validMovesList}
               : i \in {j \in 1..Len(pieces) : pieces[j].color = Mover}}

\* C12: round-trip notation.  In every position where the game goes on, two
\* legal moves of the side to move that lead to different piece placements are
\* recorded by different notation strings.
C12_NotationIdentifiesMove ==
    Settled =>
        LET distinct(N) ==
                \A a, b \in N :
                    (a.note # None /\ a.note = b.note) => a.placement = b.placement
        IN  distinct(NotedMoves)

\* the text is no well-formed request: fewer than four characters, a character
\* that is no digit, a file or rank outside 0..7, or no piece on the source
Malformed(msg) ==
    \/ Len(msg) < 4
    \/ \E k \in 1..4 : int(msg[k]) \notin Coord
    \/ make_moveSource(G, <<int(msg[1]), int(msg[2])>>) = 0

\* C13: a malformed or out-of-range move request through make_move leaves the
\* engine state as it was: positions, en passant and moved flags, captured
\* pieces, status, turn counter, halfmove counter and move history.
C13_MalformedRequestRejected ==
    \A msg \in Texts :
        Malformed(msg) => Observed(make_moveText(G, msg).g) = Observed(G)

Sliders == {"Rook", "Bishop", "Queen"}
Without(pcs, p) == SelectSeq(pcs, LAMBDA x : x.id # p.id)
KingOf(pcs, color) == {k \in 1..Len(pcs) : pcs[k].kind = "King" /\ pcs[k].color = color}

\* p is pinned by q: it alone stands between q and its own king k on q's line
PinnedBy(pcs, p, q, k) ==
    /\ p.kind # "King" /\ p.color = k.color
    /\ q.color # k.color /\ q.kind \in Sliders
    /\ ~Attacks(pcs, q, k.pos)
    /\ Attacks(Without(pcs, p), q, k.pos)

\* sq lies on the line through a with direction b - c
Collinear(sq, a, b, c) ==
    (sq[1] - a[1]) * (b[2] - c[2]) = (sq[2] - a[2]) * (b[1] - c[1])

\* C15: a pinned piece of the side to move, pawns included, has in its
\* legal-move list only squares on the line through its square along the pin
\* axis.
C15_PinnedOnAxis ==
    Settled =>
        \A k \in KingOf(pieces, Mover) :
        \A q \in {j \in 1..Len(pieces) : pieces[j].color # Mover /\ pieces[j].kind \in Sliders} :
        \A i \in {j \in 1..Len(pieces) : pieces[j].color = Mover} :
            PinnedBy(pieces, pieces[i], pieces[q], pieces[k]) =>
                \A sq \in pieces[i].validMovesList :
                    Collinear(sq, pieces[i].pos, pieces[k].pos, pieces[q].pos)

\* the enemy pieces that attack the king of color
Checkers(pcs, color) ==
    {c \in 1..Len(pcs) : /\ pcs[c].color # color
                          /\ \E k \in KingOf(pcs, color) : Attacks(pcs, pcs[c], pcs[k].pos)}

\* m lies strictly between a and b, which share a rank, file or diagonal
Between(a, m, b) ==
    \E t \in 1..(Max(Abs(b[1] - a[1]), Abs(b[2] - a[2])) - 1) :
        m = <<a[1] + t * Sign(b[1] - a[1]), a[2] + t * Sign(b[2] - a[2])>>

\* a move to sq by a piece other than the king answers every check: it takes
\* the checking piece or lands between a checking slider and the king
Resolves(pcs, color, sq) ==
    \A c \in Checkers(pcs, color) :
        \/ sq = pcs[c].pos
        \/ /\ pcs[c].kind \in Sliders
           /\ \E k \in KingOf(pcs, color) : Between(pcs[c].pos, sq, pcs[k].pos)

Unpinned(pcs, p) ==
    \A q, k \in 1..Len(pcs) : ~(pcs[k].kind = "King" /\ PinnedBy(pcs, p, pcs[q], pcs[k]))

\* C16: when the side to move is in check, every square in the list of one of
\* its pieces other than the king resolves the check, and the capture of a
\* single checking knight or pawn by an unpinned piece that attacks it is in
\* that piece's list.
C16_CheckResolving ==
    (Settled /\ InCheck(pieces, Mover)) =>
        \A i \in {j \in 1..Len(pieces) : pieces[j].color = Mover /\ pieces[j].kind # "King"} :
            /\ \A sq \in pieces[i].validMovesList : Resolves(pieces, Mover, sq)
            /\ \A c \in Checkers(pieces, Mover) :
                  (/\ Cardinality(Checkers(pieces, Mover)) = 1
                   /\ pieces[c].kind \in {"Knight", "Pawn"}
                   /\ Attacks(pieces, pieces[i], pieces[c].pos)
                   /\ Unpinned(pieces, pieces[i]))
                  => pieces[c].pos \in pieces[i].validMovesList

\* the piece on sq, if any, belongs to color
HeldBy(pcs, sq, color) == \E i \in 1..Len(pcs) : pcs[i].pos = sq /\ pcs[i].color = color

\* sq is the square behind an enemy pawn beside p that may be taken en passant
EnPassantSquare(pcs, p, sq) ==
    /\ p.kind = "Pawn" /\ Attacks(pcs, p, sq) /\ ~Occupied(pcs, sq)
    /\ \E v \in 1..Len(pcs) :
          /\ pcs[v].kind = "Pawn" /\ pcs[v].color # p.color /\ pcs[v].EnPassant
          /\ pcs[v].pos = <<sq[1], p.pos[2]>>

\* by the rules of the game p may go to sq, its king's safety left aside
MayGo(pcs, p, sq) ==
    LET step == IF p.color = 0 THEN 1 ELSE -1
        home == IF p.color = 0 THEN 1 ELSE 6
    IN  /\ ~HeldBy(pcs, sq, p.color)
        /\ \A i \in 1..Len(pcs) : pcs[i].pos = sq => pcs[i].kind # "King"
        /\ IF p.kind = "Pawn"
           THEN \/ sq = <<p.pos[1], p.pos[2] + step>> /\ ~Occupied(pcs, sq)
                \/ /\ sq = <<p.pos[1], p.pos[2] + 2 * step>> /\ p.pos[2] = home
                   /\ ~Occupied(pcs, sq) /\ ~Occupied(pcs, <<p.pos[1], p.pos[2] + step>>)
                \/ Attacks(pcs, p, sq) /\ HeldBy(pcs, sq, 1 - p.color)
                \/ EnPassantSquare(pcs, p, sq)
           ELSE Attacks(pcs, p, sq)

\* the placement after p has gone to sq and taken what it takes there
After(pcs, p, sq) ==
    LET taken(x) == \/ x.pos = sq
                    \/ EnPassantSquare(pcs, p, sq) /\ x.pos = <<sq[1], p.pos[2]>>
    IN  Append(SelectSeq(pcs, LAMBDA x : x.id # p.id /\ ~taken(x)), [p EXCEPT !.pos = sq])

\* color has a move that leaves its own king on a square no enemy attacks
HasEscape(pcs, color) ==
    \E i \in 1..Len(pcs) : \E sq \in Squares :
        /\ pcs[i].color = color
        /\ MayGo(pcs, pcs[i], sq)
        /\ ~InCheck(After(pcs, pcs[i], sq), color)

\* C17: no false game end.  Checkmate (6) or stalemate (7) is the status only
\* when the side to move has no move at all that leaves its own king
\* unattacked.
C17_NoFalseGameEnd ==
    (check \in {6, 7}) => ~HasEscape(pieces, (MoveCount + 1) % 2)

\* C18: between moves, while the game goes on, the status is check against c
\* (the value c + 1) exactly when c is the side to move and c's king stands on
\* a square an enemy piece attacks, stop and start tokens included.
C18_CheckStatusExact ==
    (waiting = <<>> /\ check \in {0, 1, 2}) =>
        \A c \in {0, 1} :
            (check = c + 1) <=> (c = (MoveCount + 1) % 2 /\ InCheck(pieces, c))

\* C19: while the status is a terminal or blocking value (4 to 9) every piece
\* of both sides has an empty legal-move list, from the moment the status
\* takes that value, whether a move, a clock or a stop token set it.
C19_NoMovesWhenBlocked ==
    (check \in {4, 5, 6, 7, 8, 9}) =>
        \A i \in 1..Len(pieces) : pieces[i].validMovesList = {}

\* the placement as an attacker sees it: the king of color is looked through
XRay(pcs, color) == SelectSeq(pcs, LAMBDA x : ~(x.kind = "King" /\ x.color = color))

\* C20: after every completed move the ThreatMap marks a square exactly when
\* a piece of the side not to move attacks it, a pawn on its two forward
\* diagonals, a slider up to and including the first piece on its ray and
\* on through the king of the side to move; and the list of the king of the
\* side to move holds no square the opponent attacks, the square behind the
\* king on a checking slider's ray included.
C20_ThreatMapExact ==
    (waiting = <<>>) =>
        /\ \A sq \in Squares :
              (ThreatMap[Idx(sq)] = 1) <=> Attacked(XRay(pieces, Mover), sq, 1 - Mover)
        /\ \A k \in KingOf(pieces, Mover) : \A sq \in pieces[k].validMovesList :
              ~Attacked(XRay(pieces, Mover), sq, 1 - Mover)

\* a slider checks the king of the side to move, the square behind the king
\* on its ray is on the board, marked, and free of the king's own men
C20_Witness ==
    /\ waiting = <<>> /\ check \in {1, 2}
    /\ \E k \in KingOf(pieces, Mover) : \E q \in 1..Len(pieces) :
          LET K == pieces[k].pos
              Q == pieces[q].pos
              behind == <<K[1] + Sign(K[1] - Q[1]), K[2] + Sign(K[2] - Q[2])>>
          IN  /\ pieces[q].color = 1 - Mover /\ pieces[q].kind \in Sliders
              /\ Attacks(pieces, pieces[q], K)
              /\ behind \in Squares /\ ~Occupied(pieces, behind)
              /\ ThreatMap[Idx(behind)] = 1
              /\ pieces[k].validMovesList # {}

\* q stands on a line of attack of its kind towards the enemy king k, whatever
\* stands between them
Aims(q, k) == q.color # k.color /\ Attacks(<<q, k>>, q, k.pos)

\* the direction of q's ray towards the square K, as one step of q
RayDir(q, K) ==
    IF q.kind = "Knight" THEN <<K[1] - q.pos[1], K[2] - q.pos[2]>>
    ELSE <<Sign(K[1] - q.pos[1]), Sign(K[2] - q.pos[2])>>

\* the pieces standing strictly between the slider q and the square K
Blockers(pcs, q, K) ==
    IF q.kind \in Sliders
    THEN {b \in 1..Len(pcs) : Between(q.pos, pcs[b].pos, K)}
    ELSE {}

\* q's ray reaches the king k past at most one piece, and that one is k's
Reaches(pcs, q, k) ==
    /\ Aims(q, k)
    /\ \A b \in Blockers(pcs, q, k.pos) : pcs[b].color = k.color
    /\ Cardinality(Blockers(pcs, q, k.pos)) <= 1

\* sq is a square of q's ray to k, both ends included
OnRay(sq, q, k) ==
    \/ sq = q.pos
    \/ sq = k.pos
    \/ q.kind \in Sliders /\ Between(q.pos, sq, k.pos)

\* C21: after a completed move the PinMap holds exactly the rays of enemy
\* pieces that reach the king of the side to move past at most one piece of
\* that side: every square of such a ray carries the ray's direction (the
\* pinned piece's square included), and a ray with two or more pieces on it,
\* or with a piece of the attacker's side on it, records nothing.
C21_PinMapExact ==
    (waiting = <<>>) =>
        \A k \in KingOf(pieces, Mover) :
            /\ \A q \in 1..Len(pieces) : \A sq \in Squares :
                  (Reaches(pieces, pieces[q], pieces[k]) /\ OnRay(sq, pieces[q], pieces[k]))
                  => IF sq = pieces[k].pos
                     THEN PinMap[Idx(sq)] # NoDir
                     ELSE PinMap[Idx(sq)] = RayDir(pieces[q], pieces[k].pos)
            /\ \A sq \in Squares :
                  PinMap[Idx(sq)] # NoDir =>
                      \E q \in 1..Len(pieces) :
                          /\ Reaches(pieces, pieces[q], pieces[k])
                          /\ OnRay(sq, pieces[q], pieces[k])
                          /\ PinMap[Idx(sq)] = RayDir(pieces[q], pieces[k].pos)

\* a slider pins a piece of the side to move, and the pinned piece's square
\* carries the direction of the ray
C21_Witness ==
    /\ waiting = <<>>
    /\ \E k \in KingOf(pieces, Mover) : \E q \in 1..Len(pieces) :
          /\ Reaches(pieces, pieces[q], pieces[k])
          /\ \E b \in Blockers(pieces, pieces[q], pieces[k].pos) :
                PinMap[Idx(pieces[b].pos)] = RayDir(pieces[q], pieces[k].pos)

\* C22: white moves first and the turn passes with every completed move that
\* does not end the game: between moves of a game that goes on, the turn
\* counter names the side that has completed as many moves as the other or one
\* fewer; and in every state a piece with a non-empty legal-move list belongs
\* to the side to move.
C22_TurnOrder ==
    /\ (waiting = <<>> /\ check \in {0, 1, 2}) => (MoveCount + 1) % 2 = Mover
    /\ \A i \in 1..Len(pieces) : pieces[i].validMovesList # {} => pieces[i].color = Mover

\* the pawns of a placement with their squares
PawnSquares(pcs) == {<<pcs[i].id, pcs[i].pos>> : i \in {j \in 1..Len(pcs) : pcs[j].kind = "Pawn"}}

\* C23: the halfmove counter is 0 after a completed move that moved a pawn
\* (promotions and en passant captures included) or took a piece, and one more
\* than before after every other completed move, castling included; from 0 at
\* the start it so counts the half-moves since the last pawn move or capture.
C23_HalfmoveClock ==
    [][Len(MHList') = Len(MHList) + 1 =>
          fiftyMoveCounter' = IF \/ PawnSquares(pieces') # PawnSquares(pieces)
                                 \/ Len(pieces') < Len(pieces)
                              THEN 0
                              ELSE fiftyMoveCounter + 1]_vars

\* a quiet move has been counted after a capture
C23_Witness ==
    waiting = <<>> /\ fiftyMoveCounter > 0 /\ Len(pieces) < 32

\* the square of the piece id in a placement that holds it
PosOf(pcs, id) == pcs[IndexOf(pcs, id)].pos

\* the last record of a move history
LastMove(MH) == MH[Len(MH)]

\* with or without the suffix of a check or a mate
Suffixed(name) == {name, name \o "+", name \o "#"}

\* C24: a step in which a king goes two files to the side is a castling move:
\* the king arrives on file 6 and the rook of file 7 on file 5, or the king on
\* file 2 and the rook of file 0 on file 3, on the king's rank; every other
\* piece stays where it was and none leaves the board; the record appended is
\* O-O or O-O-O.
C24_Castling ==
    [][\A i \in 1..Len(pieces) :
          (/\ pieces[i].kind = "King" /\ Alive(pieces', pieces[i].id)
           /\ Abs(PosOf(pieces', pieces[i].id)[1] - pieces[i].pos[1]) = 2)
          => LET y    == pieces[i].pos[2]
                 to   == PosOf(pieces', pieces[i].id)
                 from == IF to[1] = 6 THEN 7 ELSE 0
                 next == IF to[1] = 6 THEN 5 ELSE 3
             IN  /\ to \in {<<6, y>>, <<2, y>>}
                 /\ \E r \in 1..Len(pieces) :
                       /\ pieces[r].kind = "Rook" /\ pieces[r].color = pieces[i].color
                       /\ pieces[r].pos = <<from, y>>
                       /\ Alive(pieces', pieces[r].id)
                       /\ PosOf(pieces', pieces[r].id) = <<next, y>>
                 /\ \A j \in 1..Len(pieces) :
                       (j # i /\ pieces[j].pos # <<from, y>>)
                       => /\ Alive(pieces', pieces[j].id)
                          /\ PosOf(pieces', pieces[j].id) = pieces[j].pos
                 /\ Len(pieces') = Len(pieces)
                 /\ MHList' # <<>>
                 /\ SubSeq(MHList', 1, Len(MHList') - 1) = MHList
                 /\ LastMove(MHList') \in Suffixed(IF to[1] = 6 THEN "O-O" ELSE "O-O-O")]_vars

\* black has just castled queenside after white castled kingside
C24_Witness ==
    /\ Len(MHList) = 16 /\ MHList[15] = "O-O" /\ MHList[16] = "O-O-O"
    /\ \E k, r \in 1..Len(pieces) :
          /\ pieces[k].kind = "King" /\ pieces[k].color = 1 /\ pieces[k].pos = <<2, 7>>
          /\ pieces[r].kind = "Rook" /\ pieces[r].color = 1 /\ pieces[r].pos = <<3, 7>>

\* the history holds the record of a double step of a pawn of color to sq
DoubleStepRecorded(MH, color, sq) ==
    /\ sq[2] = (IF color = 0 THEN 3 ELSE 4)
    /\ \E n \in 1..Len(MH) :
          /\ (n + 1) % 2 = color
          /\ MH[n] \in Suffixed(FileChar[sq[1] + 1] \o ToString(sq[2] + 1))

\* C25: a step of legal play in which a pawn goes diagonally onto an empty
\* square takes exactly one piece off the board: the enemy pawn on the mover's
\* rank of origin and file of destination, a pawn that made a double step;
\* every other piece keeps its square.
C25_EnPassantCapture ==
    [][\A i \in 1..Len(pieces) :
          (/\ pieces[i].kind = "Pawn" /\ Alive(pieces', pieces[i].id)
           /\ PosOf(pieces', pieces[i].id)[1] # pieces[i].pos[1]
           /\ ~Occupied(pieces, PosOf(pieces', pieces[i].id)))
          => LET to     == PosOf(pieces', pieces[i].id)
                 beside == <<to[1], pieces[i].pos[2]>>
             IN  /\ Len(pieces') = Len(pieces) - 1
                 /\ \E v \in 1..Len(pieces) :
                       /\ pieces[v].pos = beside /\ pieces[v].kind = "Pawn"
                       /\ pieces[v].color # pieces[i].color
                       /\ ~Alive(pieces', pieces[v].id)
                       /\ DoubleStepRecorded(MHList, pieces[v].color, beside)
                 /\ \A j \in 1..Len(pieces) :
                       (j # i /\ pieces[j].pos # beside)
                       => /\ Alive(pieces', pieces[j].id)
                          /\ PosOf(pieces', pieces[j].id) = pieces[j].pos]_vars

\* after 4... d5 a white pawn has taken the pawn on d5 in passing
C25_Witness ==
    /\ waiting = <<>> /\ Len(MHList) = 9 /\ MHList[8] = "d5" /\ Len(pieces) = 31
    /\ ~Occupied(pieces, <<3, 4>>)
    /\ \E i \in 1..Len(pieces) :
          pieces[i].kind = "Pawn" /\ pieces[i].color = 0 /\ pieces[i].pos = <<3, 5>>

\* the last character of a record
LastChar(rec) == SubSeq(rec, Len(rec), Len(rec))

\* color is in check and has no move that ends it
Checkmated(pcs, color) == InCheck(pcs, color) /\ ~HasEscape(pcs, color)

\* C26: every step leaves the records of the move history as they were and
\* appends at most one; a step that changes the placement and leaves no move
\* in progress appends one; the record appended ends with '#' exactly when
\* the opponent of the mover is checkmated after the move, and with '+'
\* exactly when that side is in check and not checkmated.
C26_CheckSuffix ==
    [][/\ Len(MHList') \in {Len(MHList), Len(MHList) + 1}
       /\ SubSeq(MHList', 1, Len(MHList)) = MHList
       /\ (waiting' = <<>> /\ Placement(pieces') # Placement(pieces))
          => Len(MHList') = Len(MHList) + 1
       /\ Len(MHList') = Len(MHList) + 1
          => /\ LastChar(LastMove(MHList')) = "#"
                <=> Checkmated(pieces', Len(MHList') % 2)
             /\ LastChar(LastMove(MHList')) = "+"
                <=> (InCheck(pieces', Len(MHList') % 2)
                     /\ ~Checkmated(pieces', Len(MHList') % 2))]_vars

\* the other pieces of p's kind and colour whose legal-move list holds sq
Rivals(pcs, p, sq) ==
    {j \in 1..Len(pcs) : /\ pcs[j].id # p.id /\ pcs[j].kind = p.kind
                         /\ pcs[j].color = p.color /\ sq \in pcs[j].validMovesList}

\* the notation of p's move to sq by the rule of the claim: the file of origin
\* when a rival stands on another file, the rank of origin when one stands on
\* p's file
Disambiguated(pcs, p, sq, capture) ==
    PieceNameMap(p.kind)
    \o (IF \E j \in Rivals(pcs, p, sq) : pcs[j].pos[1] # p.pos[1]
        THEN FileChar[p.pos[1] + 1] ELSE "")
    \o (IF \E j \in Rivals(pcs, p, sq) : pcs[j].pos[1] = p.pos[1]
        THEN ToString(p.pos[2] + 1) ELSE "")
    \o (IF capture THEN "x" ELSE "")
    \o FileChar[sq[1] + 1] \o ToString(sq[2] + 1)

\* a king goes two files to the side in this step
CastlingStep ==
    \E i \in 1..Len(pieces) :
        /\ pieces[i].kind = "King" /\ Alive(pieces', pieces[i].id)
        /\ Abs(PosOf(pieces', pieces[i].id)[1] - pieces[i].pos[1]) = 2

\* C27: the record of a move of a piece other than a pawn, castling apart,
\* names the file of origin exactly when another piece of its kind and colour
\* with the destination in its legal-move list stands on another file, and
\* the rank of origin exactly when such a piece stands on the mover's file.
C27_Disambiguation ==
    [][\A i \in 1..Len(pieces) :
          (/\ pieces[i].kind # "Pawn" /\ Alive(pieces', pieces[i].id)
           /\ PosOf(pieces', pieces[i].id) # pieces[i].pos
           /\ ~CastlingStep)
          => /\ Len(MHList') = Len(MHList) + 1
             /\ LastMove(MHList') \in
                    Suffixed(Disambiguated(pieces, pieces[i], PosOf(pieces', pieces[i].id),
                                           Len(pieces') < Len(pieces)))]_vars

\* a knight has gone from b1 to c3 and the record names its rank of origin
C27_Witness ==
    /\ waiting = <<>> /\ Len(MHList) = 7 /\ MHList[5] = "Nb5" /\ MHList[7] = "N1c3"

\* C28: the status is never threefold repetition (8), whatever is played and
\* however often a position comes back.
C28_NoRepetitionDraw == check # 8

\* the position after 3. a3 stands for the third time and the game goes on
C28_Witness ==
    /\ waiting = <<>> /\ check = 0 /\ Len(MHList) = 13
    /\ SubSeq(MHList, 6, 13) = Rep(<<"Nc6", "Nb1", "Nb8", "Nc3">>, 2)
    /\ Placement(pieces) = Placement(twin.pieces)

\* C29: in legal play each colour has exactly one king on the board and no
\* legal-move list holds a square on which a king stands.
C29_KingsStay ==
    /\ \A c \in {0, 1} : Cardinality(KingOf(pieces, c)) = 1
    /\ \A i, k \in 1..Len(pieces) :
           pieces[k].kind = "King" => pieces[k].pos \notin pieces[i].validMovesList

\* C30: a move token is sent only for a piece of the client's own side; a
\* spectator sends none.
C30_OwnSideOnly ==
    [][sent' # sent =>
          \E tok \in {sent'[Len(sent')]} :
          \E i \in {clickedFigure(pieces, <<tok[1], tok[2]>>)} :
             /\ sent' = Append(sent, tok)
             /\ side \in {0, 1}
             /\ i # 0 /\ pieces[i].color = side]_vars

\* C31: while the socket is not connected, a drop or click on a square of the
\* piece's list (undrag hands a token to send_message) leaves the piece
\* positions, the turn counter and the move history as they are.
C31_UnsentMoveNotApplied ==
    [][(~connected /\ sent' # sent) =>
          /\ Placement(pieces') = Placement(pieces)
          /\ MoveCount' = MoveCount
          /\ MHList' = MHList]_vars

\* C32: once everything sent to client This has been delivered and both
\* player slots of the relay are occupied, the last control token it received
\* is not "stop" (its status is not the 4 that "stop" writes).
C32_StartWhenBothSlotsFilled ==
    (/\ This \in Connected(active_connections)
     /\ inbox[This] = <<>>
     /\ openside[0] # NoClient /\ openside[1] # NoClient) => check # 4

\* C33: when the broadcast of a forwarded text ends, every client other than
\* the sender that was connected from its beginning to its end has been sent
\* the text exactly once, and the sender has not been sent it.
C33_ForwardedOnce ==
    [][(casting.running /\ ~casting'.running) =>
          \A c \in Clients :
             /\ c = casting.sender => casting.got[c] = 0
             /\ (c \in casting.stayed /\ c # casting.sender) => casting.got[c] = 1]_vars

\* C34: each player slot of the relay is held by one connected client at
\* most, no client holds both slots, a client whose handshake names a player
\* side holds that slot, and a client told side -1 holds no slot.
C34_SlotsDistinct ==
    /\ \A s \in {0, 1} : openside[s] # NoClient => openside[s] \in Connected(active_connections)
    /\ openside[0] # NoClient => openside[0] # openside[1]
    /\ \A k, l \in 1..Len(active_connections) :
          active_connections[k] = active_connections[l] => k = l
    /\ \A c \in Clients : \A k \in 1..Len(inbox[c]) :
          /\ inbox[c][k] = <<"init", "-1">> => (openside[0] # c /\ openside[1] # c)
          /\ \A s \in {0, 1} : inbox[c][k] = <<"init", strSide(s)>> => openside[s] = c
    /\ (/\ This \in Connected(active_connections)
        /\ \A k \in 1..Len(inbox[This]) : inbox[This][k][1] # "init"
        /\ side = -1) => (openside[0] # This /\ openside[1] # This)

\* three clients are connected and the third has been told it is a spectator
C34_Witness ==
    /\ Len(active_connections) = 3
    /\ openside[0] # NoClient /\ openside[1] # NoClient
    /\ \E c \in Clients : inbox[c] # <<>> /\ Head(inbox[c]) = <<"init", "-1">>

\* C35: the two clocks never run together; after a completed move that does
\* not end the game the clock of the side now to move runs and the other does
\* not; and from a state in which the game has ended on, no clock runs.
C35_ClockInvariant ==
    /\ [](~(clocks[0].running /\ clocks[1].running))
    /\ [][(Len(MHList') = Len(MHList) + 1 /\ check' \notin {5, 6, 7, 8, 9}) =>
             /\ clocks'[Len(MHList') % 2].running
             /\ ~clocks'[1 - (Len(MHList') % 2)].running]_vars
    /\ [](check \in {5, 6, 7, 8, 9} => [](~clocks[0].running /\ ~clocks[1].running))

\* C36: a press that only selects or picks up a piece (no move is made) leaves
\* the pieces with their legal-move lists, the status and the turn counter
\* unchanged.
C36_PickIsPure ==
    [][(selected' # selected /\ MHList' = MHList /\ sent' = sent) =>
          (pieces' = pieces /\ check' = check /\ MoveCount' = MoveCount)]_vars

\* the pieces of a kind and colour on the board
Standing(pcs, kindName, color) ==
    Cardinality({i \in 1..Len(pcs) : pcs[i].kind = kindName /\ pcs[i].color = color})

\* the pieces of a colour on the board
OfColour(pcs, color) == Cardinality({i \in 1..Len(pcs) : pcs[i].color = color})

\* the sum of the counts kept for a colour
KnockedOf(knocked, color) ==
    knocked["Pawn"][color] + knocked["Knight"][color] + knocked["Bishop"][color]
        + knocked["Rook"][color] + knocked["Queen"][color] + knocked["King"][color]

\* C37: in legal play the counts of KnockedPieces are the numbers of captured
\* pieces: per colour they add up to the pieces that have left the board, and
\* as long as no pawn has been promoted each count is the number of pieces of
\* that kind and colour missing from the initial position.
C37_KnockedCounts ==
    waiting = <<>> =>
       \A c \in {0, 1} :
          /\ KnockedOf(knocked_pieces, c) = OfColour(init_chess, c) - OfColour(pieces, c)
          /\ nextId = 33 =>
                \A k \in Kinds :
                   knocked_pieces[k][c] = Standing(init_chess, k, c) - Standing(pieces, k, c)

\* the next message for client This is a handshake and this step delivers it
HandshakeArrives ==
    /\ inbox[This] # <<>>
    /\ Head(inbox[This])[1] = "init"
    /\ This \in Connected(active_connections')
    /\ inbox'[This] = Tail(inbox[This])

\* C14: every handshake the relay sends has the four fields init, side,
\* reserved and prior-move list, with side 0, 1 or -1; the client that receives
\* it takes the side of the side field and ends the replay without an error.
C14_Handshake ==
    [][/\ \A c \in Clients : \A k \in 1..Len(inbox'[c]) :
             inbox'[c][k][1] = "init" =>
                 Len(inbox'[c][k]) = 4 /\ inbox'[c][k][2] \in {"0", "1", "-1"}
       /\ HandshakeArrives =>
             side' = intSide(Head(inbox[This])[2]) /\ ~raisedInit']_vars
====
